---- MODULE Spec2Model ----
(***************************************************************************)
(* A model of config-engine: ConfigResolver.resolve,                        *)
(* OverrideValidationService.validate and the organisation service that     *)
(* calls them (apply_config_overrides, get_effective_config).               *)
(*                                                                          *)
(* JSON values are records of one shape, so that any two can be compared:   *)
(*   t  the Python type: "null", "bool", "int", "float", "str", "list",     *)
(*      "dict"                                                              *)
(*   n  the number: 0/1 for a bool, the integer for an int, and the number  *)
(*      of HALVES for a float (n = 5 is 2.5), so that floats with a         *)
(*      fractional part exist and 1 == 1.0 == True as in Python             *)
(*   s  the text of a str                                                   *)
(*   l  the items of a list, a sequence of values                           *)
(*   d  the items of a dict, a sequence of <<key, value>> pairs in          *)
(*      insertion order, keys unique                                        *)
(***************************************************************************)
EXTENDS Integers, Sequences, FiniteSets, TLC

VARIABLES
    schema,            \* the schema_definition the call sees
    org_overrides,     \* resolve's org layer / validate's request.overrides
    user_overrides,    \* resolve's user layer
    acting_role,       \* request.acting_role
    environment,       \* request.environment
    config_overrides,  \* Organization.config_overrides as stored
    pc,                \* which calls have returned
    resolved,          \* what ConfigResolver.resolve returned
    validation,        \* what OverrideValidationService.validate returned
    response,          \* what the service call returned
    schema_validation, \* how SchemaValidator.validate ended
    heap,              \* the dicts and lists in memory, by address
    rows,              \* the committed GlobalConfigSchema rows, by primary key
    calls              \* the locals of the calls in progress, by caller

vars == <<schema, org_overrides, user_overrides, acting_role, environment,
          config_overrides, pc, resolved, validation, response, schema_validation,
          heap, rows, calls>>

(***************************************************************************)
(* JSON values                                                             *)
(***************************************************************************)
JNull == [t |-> "null", n |-> 0, s |-> "", l |-> <<>>, d |-> <<>>]

JBool(b) == [t |-> "bool", n |-> IF b THEN 1 ELSE 0, s |-> "", l |-> <<>>, d |-> <<>>]

JInt(i) == [t |-> "int", n |-> i, s |-> "", l |-> <<>>, d |-> <<>>]

\* a float given in halves: JFloat(5) is 2.5
JFloat(h) == [t |-> "float", n |-> h, s |-> "", l |-> <<>>, d |-> <<>>]

JStr(x) == [t |-> "str", n |-> 0, s |-> x, l |-> <<>>, d |-> <<>>]

JList(items) == [t |-> "list", n |-> 0, s |-> "", l |-> items, d |-> <<>>]

JDict(pairs) == [t |-> "dict", n |-> 0, s |-> "", l |-> <<>>, d |-> pairs]

\* isinstance(v, dict)
IsDict(v) == v.t = "dict"

\* Python truthiness: `not v` is ~Truthy(v)
Truthy(v) ==
    CASE v.t = "null" -> FALSE
      [] v.t \in {"bool", "int", "float"} -> v.n # 0
      [] v.t = "str" -> v.s # ""
      [] v.t = "list" -> v.l # <<>>
      [] OTHER -> v.d # <<>>

\* the keys of a dict, and `k in v`
Keys(v) == {v.d[i][1] : i \in DOMAIN v.d}

Has(v, k) == \E i \in DOMAIN v.d : v.d[i][1] = k

\* v[k] for a key the dict holds
Get(v, k) == v.d[CHOOSE i \in DOMAIN v.d : v.d[i][1] = k][2]

\* v.get(k): None when the key is absent
GetOrNone(v, k) == IF Has(v, k) THEN Get(v, k) ELSE JNull

\* v.get(k, {})
GetOrEmpty(v, k) == IF Has(v, k) THEN Get(v, k) ELSE JDict(<<>>)

\* v[k] = x: in place when the key exists, appended otherwise
SetItem(v, k, x) ==
    IF Has(v, k)
    THEN JDict([i \in DOMAIN v.d |-> IF v.d[i][1] = k THEN <<k, x>> ELSE v.d[i]])
    ELSE JDict(Append(v.d, <<k, x>>))

\* Python's == on numbers: bool, int and float compare by value (in halves)
IsNumber(v) == v.t \in {"bool", "int", "float"}

Num(v) == IF v.t = "float" THEN v.n ELSE 2 * v.n

RECURSIVE PyEq(_, _)
PyEq(a, b) ==
    IF IsNumber(a) /\ IsNumber(b) THEN Num(a) = Num(b)
    ELSE IF a.t # b.t THEN FALSE
    ELSE CASE a.t = "null" -> TRUE
           [] a.t = "str" -> a.s = b.s
           [] a.t = "list" ->
                /\ Len(a.l) = Len(b.l)
                /\ \A i \in DOMAIN a.l : PyEq(a.l[i], b.l[i])
           [] OTHER ->
                /\ Keys(a) = Keys(b)
                /\ \A k \in Keys(a) : PyEq(Get(a, k), Get(b, k))

\* `x in lst` for a list
PyIn(x, lst) == \E i \in DOMAIN lst.l : PyEq(x, lst.l[i])

\* copy.deepcopy: values here are mathematical, a copy is the same structure
DeepCopy(v) == v

(***************************************************************************)
(* ConfigResolver                                                          *)
(***************************************************************************)
\* ApplyField without the check that the schema declares the field
ApplyField_no_skip(base, ns_name, schema_fields, field_name, override_value) ==
    SetItem(base, ns_name,
            SetItem(Get(base, ns_name), field_name, DeepCopy(override_value)))

\* one field of one override namespace (config_resolver.py 186-193)
ApplyField(base, ns_name, schema_fields, field_name, override_value) ==
    IF ~Has(schema_fields, field_name)
    THEN base
    ELSE SetItem(base, ns_name,
                 SetItem(Get(base, ns_name), field_name, DeepCopy(override_value)))

\* the field loop stopping after the first field of the namespace
ApplyFields_first_only(base, ns_name, schema_fields, items, i) ==
    IF items = <<>>
    THEN base
    ELSE ApplyField(base, ns_name, schema_fields, items[1][1], items[1][2])

\* for field_name, override_value in ns_overrides.items()
RECURSIVE ApplyFields(_, _, _, _, _)
ApplyFields(base, ns_name, schema_fields, items, i) ==
    IF i > Len(items)
    THEN base
    ELSE ApplyFields(
            ApplyField(base, ns_name, schema_fields, items[i][1], items[i][2]),
            ns_name, schema_fields, items, i + 1)

\* ApplyNamespace storing a namespace value that is no mapping instead of
\* skipping it
ApplyNamespace_keeps_non_mapping(base, schema_namespaces, ns_name, ns_overrides) ==
    IF ~Has(schema_namespaces, ns_name)
    THEN base
    ELSE IF ~IsDict(ns_overrides)
    THEN SetItem(base, ns_name, DeepCopy(ns_overrides))
    ELSE ApplyFields(base, ns_name, Get(schema_namespaces, ns_name),
                     ns_overrides.d, 1)

\* one namespace of an override layer (config_resolver.py 177-193)
ApplyNamespace(base, schema_namespaces, ns_name, ns_overrides) ==
    IF ~Has(schema_namespaces, ns_name)
    THEN base
    ELSE IF ~IsDict(ns_overrides)
    THEN base
    ELSE ApplyFields(base, ns_name, Get(schema_namespaces, ns_name),
                     ns_overrides.d, 1)

\* for ns_name, ns_overrides in overrides.items()
RECURSIVE ApplyNamespaces(_, _, _, _)
ApplyNamespaces(base, schema_namespaces, items, i) ==
    IF i > Len(items)
    THEN base
    ELSE ApplyNamespaces(
            ApplyNamespace(base, schema_namespaces, items[i][1], items[i][2]),
            schema_namespaces, items, i + 1)

\* _apply_overrides as base.update(overrides): every namespace of the layer
\* replaces the one of base or is added to it, whatever the schema declares
_apply_overrides_update(base, schema_namespaces, overrides) ==
    IF ~Truthy(overrides)
    THEN base
    ELSE JDict([i \in DOMAIN base.d |->
                  <<base.d[i][1],
                    IF Has(overrides, base.d[i][1])
                    THEN Get(overrides, base.d[i][1])
                    ELSE base.d[i][2]>>]
               \o SelectSeq(overrides.d, LAMBDA item : ~Has(base, item[1])))

\* ConfigResolver._apply_overrides: the new value of base
_apply_overrides(base, schema_namespaces, overrides) ==
    IF ~Truthy(overrides)
    THEN base
    ELSE ApplyNamespaces(base, schema_namespaces, overrides.d, 1)

\* the dict comprehension that builds base from the schema defaults
BaseDefaults(namespaces) ==
    JDict([i \in DOMAIN namespaces.d |->
            <<namespaces.d[i][1],
              JDict([j \in DOMAIN namespaces.d[i][2].d |->
                      <<namespaces.d[i][2].d[j][1],
                        DeepCopy(Get(namespaces.d[i][2].d[j][2], "default"))>>])>>])

\* what makes resolve raise: schema["namespaces"] and fdef["default"] on a
\* missing key, .items() on a layer that is truthy and no dict
ResolveRaises(schema_, org, user) ==
    IF ~Has(schema_, "namespaces") THEN "KeyError"
    ELSE IF \E i \in DOMAIN Get(schema_, "namespaces").d :
              \E j \in DOMAIN Get(schema_, "namespaces").d[i][2].d :
                ~Has(Get(schema_, "namespaces").d[i][2].d[j][2], "default")
    THEN "KeyError"
    ELSE IF \E layer \in {org, user} : Truthy(layer) /\ ~IsDict(layer)
    THEN "AttributeError"
    ELSE ""

\* resolve reading schema.get("namespaces", {}) instead of schema["namespaces"]
resolve_defaults_namespaces(schema_, org, user) ==
    IF Has(schema_, "namespaces") /\ ResolveRaises(schema_, org, user) # ""
    THEN [raised |-> ResolveRaises(schema_, org, user), value |-> JNull]
    ELSE LET namespaces == GetOrEmpty(schema_, "namespaces")
             base == BaseDefaults(namespaces)
             after_org == _apply_overrides(base, namespaces, org)
         IN  [raised |-> "",
              value |-> _apply_overrides(after_org, namespaces, user)]

\* resolve applying the user layer before the org layer
resolve_user_first(schema_, org, user) ==
    IF ResolveRaises(schema_, org, user) # ""
    THEN [raised |-> ResolveRaises(schema_, org, user), value |-> JNull]
    ELSE LET namespaces == Get(schema_, "namespaces")
             base == BaseDefaults(namespaces)
             after_user == _apply_overrides(base, namespaces, user)
         IN  [raised |-> "",
              value |-> _apply_overrides(after_user, namespaces, org)]

\* ConfigResolver.resolve: [raised, value]; value is the returned dict
resolve(schema_, org, user) ==
    IF ResolveRaises(schema_, org, user) # ""
    THEN [raised |-> ResolveRaises(schema_, org, user), value |-> JNull]
    ELSE LET namespaces == Get(schema_, "namespaces")
             base == BaseDefaults(namespaces)
             after_org == _apply_overrides(base, namespaces, org)
         IN  [raised |-> "",
              value |-> _apply_overrides(after_org, namespaces, user)]

(***************************************************************************)
(* OverrideValidationService                                               *)
(***************************************************************************)
\* one entry of the errors list; message keeps the part of the text that
\* tells two errors of one code apart
Err(field, code, message) == [field |-> field, code |-> code, message |-> message]

\* f"{ns_name}.{field_name}"
FieldPath(ns_name, field_name) == ns_name \o "." \o field_name

\* isinstance(v, cls) for the classes of _TYPE_CHECKERS; bool is a subclass of int
IsInstance(v, cls) ==
    CASE cls = "int" -> v.t \in {"int", "bool"}
      [] cls = "float" -> v.t = "float"
      [] cls = "bool" -> v.t = "bool"
      [] cls = "str" -> v.t = "str"
      [] cls = "list" -> v.t = "list"
      [] cls = "dict" -> v.t = "dict"
      [] OTHER -> FALSE

\* _TYPE_CHECKERS (override_validator.py): the classes of a type name
_TYPE_CHECKERS(type_name) ==
    CASE type_name = "string" -> {"str"}
      [] type_name = "integer" -> {"int"}
      [] type_name = "boolean" -> {"bool"}
      [] type_name = "float" -> {"float", "int"}
      [] type_name = "list" -> {"list"}
      [] type_name = "dict" -> {"dict"}
      [] OTHER -> {}

\* _type_matches as a bare isinstance test against _TYPE_CHECKERS, which lets a
\* bool through as integer and as float
_type_matches_isinstance(declared_type, value) ==
    IF declared_type.t # "str" \/ _TYPE_CHECKERS(declared_type.s) = {}
    THEN FALSE
    ELSE \E cls \in _TYPE_CHECKERS(declared_type.s) : IsInstance(value, cls)

\* _type_matches(declared_type, value); declared_type is a JSON value
_type_matches(declared_type, value) ==
    IF declared_type = JStr("integer")
    THEN IsInstance(value, "int") /\ ~IsInstance(value, "bool")
    ELSE IF declared_type = JStr("float")
    THEN (IsInstance(value, "float") \/ IsInstance(value, "int"))
         /\ ~IsInstance(value, "bool")
    ELSE IF declared_type.t # "str" \/ _TYPE_CHECKERS(declared_type.s) = {}
    THEN FALSE
    ELSE \E cls \in _TYPE_CHECKERS(declared_type.s) : IsInstance(value, cls)

\* _validate_constraints with a value equal to a bound taken as a violation
_validate_constraints_inclusive(field_path, declared_type, override_value, constraints) ==
    LET min_val == GetOrNone(constraints, "min")
        max_val == GetOrNone(constraints, "max")
        allowed_values == GetOrNone(constraints, "allowed_values")
        comparable ==
            IF declared_type \in {JStr("integer"), JStr("float")}
            THEN override_value
            ELSE IF declared_type = JStr("list")
            THEN JInt(Len(override_value.l))
            ELSE JNull
        bounded == (min_val # JNull \/ max_val # JNull) /\ comparable # JNull
    IN  (IF bounded /\ min_val # JNull /\ Num(comparable) <= Num(min_val)
         THEN <<Err(field_path, "constraint_violation", "below the minimum")>>
         ELSE <<>>)
        \o
        (IF bounded /\ max_val # JNull /\ Num(comparable) >= Num(max_val)
         THEN <<Err(field_path, "constraint_violation", "exceeds the maximum")>>
         ELSE <<>>)
        \o
        (IF allowed_values # JNull /\ ~PyIn(override_value, allowed_values)
         THEN <<Err(field_path, "constraint_violation", "not in the allowed values")>>
         ELSE <<>>)

\* _validate_constraints: the errors it appends
_validate_constraints(field_path, declared_type, override_value, constraints) ==
    LET min_val == GetOrNone(constraints, "min")
        max_val == GetOrNone(constraints, "max")
        allowed_values == GetOrNone(constraints, "allowed_values")
        comparable ==
            IF declared_type \in {JStr("integer"), JStr("float")}
            THEN override_value
            ELSE IF declared_type = JStr("list")
            THEN JInt(Len(override_value.l))
            ELSE JNull
        bounded == (min_val # JNull \/ max_val # JNull) /\ comparable # JNull
    IN  (IF bounded /\ min_val # JNull /\ Num(comparable) < Num(min_val)
         THEN <<Err(field_path, "constraint_violation", "below the minimum")>>
         ELSE <<>>)
        \o
        (IF bounded /\ max_val # JNull /\ Num(comparable) > Num(max_val)
         THEN <<Err(field_path, "constraint_violation", "exceeds the maximum")>>
         ELSE <<>>)
        \o
        (IF allowed_values # JNull /\ ~PyIn(override_value, allowed_values)
         THEN <<Err(field_path, "constraint_violation", "not in the allowed values")>>
         ELSE <<>>)

\* rules 6 and 7 without the return after a type mismatch
TypeAndConstraintErrors_no_return(field_path, field_def, override_value) ==
    LET declared_type == IF Has(field_def, "type") THEN Get(field_def, "type") ELSE JStr("")
        constraints == GetOrEmpty(field_def, "constraints")
    IN  (IF Truthy(declared_type) /\ ~_type_matches(declared_type, override_value)
         THEN <<Err(field_path, "type_mismatch", "expects the declared type")>>
         ELSE <<>>)
        \o
        (IF Truthy(constraints)
         THEN _validate_constraints(field_path, declared_type, override_value, constraints)
         ELSE <<>>)

\* rules 6 and 7 of _validate_field_override (lines 330-353)
TypeAndConstraintErrors(field_path, field_def, override_value) ==
    LET declared_type == IF Has(field_def, "type") THEN Get(field_def, "type") ELSE JStr("")
        constraints == GetOrEmpty(field_def, "constraints")
    IN  IF Truthy(declared_type) /\ ~_type_matches(declared_type, override_value)
        THEN <<Err(field_path, "type_mismatch", "expects the declared type")>>
        ELSE IF Truthy(constraints)
        THEN _validate_constraints(field_path, declared_type, override_value, constraints)
        ELSE <<>>

\* rule 3 (lines 293-303): field_def.get("editable") is False
ImmutableErrors(field_path, field_def) ==
    IF GetOrNone(field_def, "editable") = JBool(FALSE)
    THEN <<Err(field_path, "immutable_field", "is immutable")>>
    ELSE <<>>

\* rules 4 and 5 with the environment looked at only when the role passed
PolicyErrors_first_only(field_path, field_def, role, env) ==
    LET policy == GetOrEmpty(field_def, "policy")
        editable_by_roles == GetOrNone(policy, "editable_by_roles")
        env_restrictions == GetOrNone(policy, "environment_restrictions")
    IN  IF editable_by_roles # JNull /\ ~PyIn(JStr(role), editable_by_roles)
        THEN <<Err(field_path, "role_forbidden", "role is not authorised")>>
        ELSE IF env_restrictions # JNull /\ ~PyIn(JStr(env), env_restrictions)
        THEN <<Err(field_path, "env_forbidden", "environment is not permitted")>>
        ELSE <<>>

\* rules 4 and 5 (lines 305-328)
PolicyErrors(field_path, field_def, role, env) ==
    LET policy == GetOrEmpty(field_def, "policy")
        editable_by_roles == GetOrNone(policy, "editable_by_roles")
        env_restrictions == GetOrNone(policy, "environment_restrictions")
    IN  (IF editable_by_roles # JNull /\ ~PyIn(JStr(role), editable_by_roles)
         THEN <<Err(field_path, "role_forbidden", "role is not authorised")>>
         ELSE <<>>)
        \o
        (IF env_restrictions # JNull /\ ~PyIn(JStr(env), env_restrictions)
         THEN <<Err(field_path, "env_forbidden", "environment is not permitted")>>
         ELSE <<>>)

\* _validate_field_override returning after the immutable_field error
_validate_field_override_stops(field_path, field_def, override_value, role, env) ==
    IF ImmutableErrors(field_path, field_def) # <<>>
    THEN ImmutableErrors(field_path, field_def)
    ELSE PolicyErrors(field_path, field_def, role, env)
         \o TypeAndConstraintErrors(field_path, field_def, override_value)

\* _validate_field_override: the errors it appends, in order
_validate_field_override(field_path, field_def, override_value, role, env) ==
    ImmutableErrors(field_path, field_def)
    \o PolicyErrors(field_path, field_def, role, env)
    \o TypeAndConstraintErrors(field_path, field_def, override_value)

\* the concatenation of f[1], ..., f[n]
RECURSIVE ConcatTo(_, _)
ConcatTo(f, n) == IF n = 0 THEN <<>> ELSE ConcatTo(f, n - 1) \o f[n]

\* rule 1 (cont) reporting the field name without its namespace
UnknownFieldErrors_bare_name(ns_name, ns_overrides, schema_fields) ==
    ConcatTo([i \in DOMAIN ns_overrides.d |->
                IF ~Has(schema_fields, ns_overrides.d[i][1])
                THEN <<Err(ns_overrides.d[i][1], "unknown_field",
                           "does not exist in namespace")>>
                ELSE <<>>],
             Len(ns_overrides.d))

\* rule 1 (cont), lines 221-231
UnknownFieldErrors(ns_name, ns_overrides, schema_fields) ==
    ConcatTo([i \in DOMAIN ns_overrides.d |->
                IF ~Has(schema_fields, ns_overrides.d[i][1])
                THEN <<Err(FieldPath(ns_name, ns_overrides.d[i][1]), "unknown_field",
                           "does not exist in namespace")>>
                ELSE <<>>],
             Len(ns_overrides.d))

\* rule 2 skipped for an empty mapping
MissingRequiredErrors_skips_empty(ns_name, ns_overrides, schema_fields) ==
    IF ~Truthy(ns_overrides)
    THEN <<>>
    ELSE ConcatTo([i \in DOMAIN schema_fields.d |->
                    IF /\ GetOrNone(schema_fields.d[i][2], "required") = JBool(TRUE)
                       /\ ~Has(ns_overrides, schema_fields.d[i][1])
                    THEN <<Err(FieldPath(ns_name, schema_fields.d[i][1]),
                               "missing_required", "is required but was not provided")>>
                    ELSE <<>>],
                  Len(schema_fields.d))

\* rule 2, lines 233-243: field_def.get("required") is True
MissingRequiredErrors(ns_name, ns_overrides, schema_fields) ==
    ConcatTo([i \in DOMAIN schema_fields.d |->
                IF /\ GetOrNone(schema_fields.d[i][2], "required") = JBool(TRUE)
                   /\ ~Has(ns_overrides, schema_fields.d[i][1])
                THEN <<Err(FieldPath(ns_name, schema_fields.d[i][1]), "missing_required",
                           "is required but was not provided")>>
                ELSE <<>>],
             Len(schema_fields.d))

\* rules 3-7, lines 245-260
PerFieldErrors(ns_name, ns_overrides, schema_fields, role, env) ==
    ConcatTo([i \in DOMAIN ns_overrides.d |->
                IF ~Has(schema_fields, ns_overrides.d[i][1])
                THEN <<>>
                ELSE _validate_field_override(
                        FieldPath(ns_name, ns_overrides.d[i][1]),
                        Get(schema_fields, ns_overrides.d[i][1]),
                        ns_overrides.d[i][2], role, env)],
             Len(ns_overrides.d))

\* the loop body going on to the field rules after a non-mapping value
NamespaceErrors_no_continue(schema_namespaces, ns_name, ns_overrides, role, env) ==
    IF ~Has(schema_namespaces, ns_name)
    THEN <<Err(ns_name, "unknown_namespace", "does not exist in the schema")>>
    ELSE LET schema_fields == Get(schema_namespaces, ns_name)
         IN  (IF ~IsDict(ns_overrides)
              THEN <<Err(ns_name, "unknown_namespace", "must be a dict")>>
              ELSE <<>>)
             \o UnknownFieldErrors(ns_name, ns_overrides, schema_fields)
             \o MissingRequiredErrors(ns_name, ns_overrides, schema_fields)
             \o PerFieldErrors(ns_name, ns_overrides, schema_fields, role, env)

\* the body of the loop over overrides.items(), lines 198-260
NamespaceErrors(schema_namespaces, ns_name, ns_overrides, role, env) ==
    IF ~Has(schema_namespaces, ns_name)
    THEN <<Err(ns_name, "unknown_namespace", "does not exist in the schema")>>
    ELSE IF ~IsDict(ns_overrides)
    THEN <<Err(ns_name, "unknown_namespace", "must be a dict")>>
    ELSE LET schema_fields == Get(schema_namespaces, ns_name)
         IN  UnknownFieldErrors(ns_name, ns_overrides, schema_fields)
             \o MissingRequiredErrors(ns_name, ns_overrides, schema_fields)
             \o PerFieldErrors(ns_name, ns_overrides, schema_fields, role, env)

\* the loop over overrides.items() left at the first namespace with errors
ValidateErrors_first_failure(schema_namespaces, overrides, role, env) ==
    LET failing == {i \in DOMAIN overrides.d :
                      NamespaceErrors(schema_namespaces, overrides.d[i][1],
                                      overrides.d[i][2], role, env) # <<>>}
    IN  IF failing = {}
        THEN <<>>
        ELSE LET first == CHOOSE i \in failing : \A j \in failing : i <= j
             IN  NamespaceErrors(schema_namespaces, overrides.d[first][1],
                                 overrides.d[first][2], role, env)

\* the errors list after the loop over overrides.items()
ValidateErrors(schema_namespaces, overrides, role, env) ==
    ConcatTo([i \in DOMAIN overrides.d |->
                NamespaceErrors(schema_namespaces, overrides.d[i][1],
                                overrides.d[i][2], role, env)],
             Len(overrides.d))

\* OverrideValidationService.validate: [raised, valid, errors]; .items() raises
\* on overrides that are truthy and no dict
validate(schema_, overrides_, role, env) ==
    IF Truthy(overrides_) /\ ~IsDict(overrides_)
    THEN [raised |-> "AttributeError", valid |-> FALSE, errors |-> <<>>]
    ELSE LET schema_namespaces == GetOrEmpty(schema_, "namespaces")
             overrides == IF Truthy(overrides_) THEN overrides_ ELSE JDict(<<>>)
             errors == ValidateErrors(schema_namespaces, overrides, role, env)
         IN  [raised |-> "", valid |-> Len(errors) = 0, errors |-> errors]

(***************************************************************************)
(* SchemaValidator (validators.py)                                         *)
(***************************************************************************)
\* one entry of SchemaValidationError.errors; message keeps the part of the
\* text that names the rule
SchemaErr(field, message) == [field |-> field, message |-> message]

\* _TYPE_CHECKERS of validators.py: the classes of a type name
SchemaValidator_TYPE_CHECKERS(type_name) ==
    CASE type_name = "string" -> {"str"}
      [] type_name = "integer" -> {"int"}
      [] type_name = "boolean" -> {"bool"}
      [] type_name = "float" -> {"float", "int"}
      [] type_name = "list" -> {"list"}
      [] type_name = "dict" -> {"dict"}

_VALID_TYPES == {"string", "integer", "boolean", "float", "list", "dict"}

_VALID_CONSTRAINT_KEYS == {"min", "max", "allowed_values"}

_VALID_POLICY_KEYS == {"editable_by_roles", "environment_restrictions"}

\* _is_numeric: an int that is no bool, or a float
_is_numeric(value) ==
    (IsInstance(value, "int") \/ IsInstance(value, "float")) /\ ~IsInstance(value, "bool")

\* hash(value) raises TypeError for lists and dicts
Unhashable(value) == value.t \in {"list", "dict"}

\* _validate_default without the check that keeps booleans out of float
SchemaValidator_validate_default_bool_float(field_path, declared_type, default_value) ==
    IF declared_type = "integer" /\ IsInstance(default_value, "bool")
    THEN <<SchemaErr(field_path, "default must be an integer (not bool)")>>
    ELSE IF ~\E cls \in SchemaValidator_TYPE_CHECKERS(declared_type) :
                IsInstance(default_value, cls)
    THEN <<SchemaErr(field_path, "default must be of type")>>
    ELSE <<>>

\* SchemaValidator._validate_default; declared_type is one of _VALID_TYPES
SchemaValidator_validate_default(field_path, declared_type, default_value) ==
    IF declared_type = "integer" /\ IsInstance(default_value, "bool")
    THEN <<SchemaErr(field_path, "default must be an integer (not bool)")>>
    ELSE IF declared_type = "float" /\ IsInstance(default_value, "bool")
    THEN <<SchemaErr(field_path, "default must be a float or int (not bool)")>>
    ELSE IF ~\E cls \in SchemaValidator_TYPE_CHECKERS(declared_type) :
                IsInstance(default_value, cls)
    THEN <<SchemaErr(field_path, "default must be of type")>>
    ELSE <<>>

\* _validate_constraints comparing the bounds without looking at their kind
SchemaValidator_validate_constraints_raw(field_path, constraints) ==
    LET c_path == field_path \o ".constraints"
        min_numeric == Has(constraints, "min") /\ _is_numeric(Get(constraints, "min"))
        max_numeric == Has(constraints, "max") /\ _is_numeric(Get(constraints, "max"))
    IN  IF ~IsDict(constraints)
        THEN <<SchemaErr(c_path, "constraints must be a dict")>>
        ELSE (IF Keys(constraints) \ _VALID_CONSTRAINT_KEYS # {}
              THEN <<SchemaErr(c_path, "Unknown constraint key(s)")>>
              ELSE <<>>)
             \o
             (IF Has(constraints, "min") /\ ~min_numeric
              THEN <<SchemaErr(c_path \o ".min", "min must be a numeric value")>>
              ELSE <<>>)
             \o
             (IF Has(constraints, "max") /\ ~max_numeric
              THEN <<SchemaErr(c_path \o ".max", "max must be a numeric value")>>
              ELSE <<>>)
             \o
             (IF /\ Has(constraints, "min")
                 /\ Has(constraints, "max")
                 /\ Num(Get(constraints, "min")) > Num(Get(constraints, "max"))
              THEN <<SchemaErr(c_path, "min must be <= max")>>
              ELSE <<>>)
             \o
             (IF /\ Has(constraints, "allowed_values")
                 /\ \/ ~IsInstance(Get(constraints, "allowed_values"), "list")
                    \/ Len(Get(constraints, "allowed_values").l) = 0
              THEN <<SchemaErr(c_path \o ".allowed_values",
                               "allowed_values must be a non-empty list")>>
              ELSE <<>>)

\* SchemaValidator._validate_constraints
SchemaValidator_validate_constraints(field_path, constraints) ==
    LET c_path == field_path \o ".constraints"
        min_numeric == Has(constraints, "min") /\ _is_numeric(Get(constraints, "min"))
        max_numeric == Has(constraints, "max") /\ _is_numeric(Get(constraints, "max"))
    IN  IF ~IsDict(constraints)
        THEN <<SchemaErr(c_path, "constraints must be a dict")>>
        ELSE (IF Keys(constraints) \ _VALID_CONSTRAINT_KEYS # {}
              THEN <<SchemaErr(c_path, "Unknown constraint key(s)")>>
              ELSE <<>>)
             \o
             (IF Has(constraints, "min") /\ ~min_numeric
              THEN <<SchemaErr(c_path \o ".min", "min must be a numeric value")>>
              ELSE <<>>)
             \o
             (IF Has(constraints, "max") /\ ~max_numeric
              THEN <<SchemaErr(c_path \o ".max", "max must be a numeric value")>>
              ELSE <<>>)
             \o
             (IF /\ min_numeric
                 /\ max_numeric
                 /\ Num(Get(constraints, "min")) > Num(Get(constraints, "max"))
              THEN <<SchemaErr(c_path, "min must be <= max")>>
              ELSE <<>>)
             \o
             (IF /\ Has(constraints, "allowed_values")
                 /\ \/ ~IsInstance(Get(constraints, "allowed_values"), "list")
                    \/ Len(Get(constraints, "allowed_values").l) = 0
              THEN <<SchemaErr(c_path \o ".allowed_values",
                               "allowed_values must be a non-empty list")>>
              ELSE <<>>)

\* the body of the loop over the two policy keys
PolicyKeyErrors(p_path, policy, key) ==
    IF ~Has(policy, key)
    THEN <<>>
    ELSE IF ~IsInstance(Get(policy, key), "list") \/ Len(Get(policy, key).l) = 0
    THEN <<SchemaErr(p_path \o "." \o key, "must be a non-empty list")>>
    ELSE IF \E i \in DOMAIN Get(policy, key).l : ~IsInstance(Get(policy, key).l[i], "str")
    THEN <<SchemaErr(p_path \o "." \o key, "All items must be strings")>>
    ELSE <<>>

\* _validate_policy looking at the second key only when the first passed
SchemaValidator_validate_policy_first_key(field_path, policy) ==
    LET p_path == field_path \o ".policy"
    IN  IF ~IsDict(policy)
        THEN <<SchemaErr(p_path, "policy must be a dict")>>
        ELSE (IF Keys(policy) \ _VALID_POLICY_KEYS # {}
              THEN <<SchemaErr(p_path, "Unknown policy key(s)")>>
              ELSE <<>>)
             \o
             (IF PolicyKeyErrors(p_path, policy, "editable_by_roles") # <<>>
              THEN PolicyKeyErrors(p_path, policy, "editable_by_roles")
              ELSE PolicyKeyErrors(p_path, policy, "environment_restrictions"))

\* SchemaValidator._validate_policy
SchemaValidator_validate_policy(field_path, policy) ==
    LET p_path == field_path \o ".policy"
    IN  IF ~IsDict(policy)
        THEN <<SchemaErr(p_path, "policy must be a dict")>>
        ELSE (IF Keys(policy) \ _VALID_POLICY_KEYS # {}
              THEN <<SchemaErr(p_path, "Unknown policy key(s)")>>
              ELSE <<>>)
             \o PolicyKeyErrors(p_path, policy, "editable_by_roles")
             \o PolicyKeyErrors(p_path, policy, "environment_restrictions")

\* rule 3 of _validate_field: declared_type not in _VALID_TYPES hashes the
\* value, which raises TypeError for a list or a dict
FieldRaises(field_def) ==
    IF GetOrNone(field_def, "type") # JNull /\ Unhashable(Get(field_def, "type"))
    THEN "TypeError"
    ELSE ""

\* type_valid of _validate_field
TypeValid(field_def) ==
    /\ GetOrNone(field_def, "type").t = "str"
    /\ GetOrNone(field_def, "type").s \in _VALID_TYPES

\* _validate_field holding the default to the field's own constraints, by the
\* rule overrides are held to
SchemaValidator_validate_field_checks_default(field_path, field_def) ==
    (IF GetOrNone(field_def, "type") = JNull
     THEN <<SchemaErr(field_path, "type is required")>>
     ELSE IF ~TypeValid(field_def)
     THEN <<SchemaErr(field_path, "type must be one of")>>
     ELSE <<>>)
    \o
    (IF ~Has(field_def, "default")
     THEN <<SchemaErr(field_path, "default is required")>>
     ELSE IF TypeValid(field_def)
     THEN SchemaValidator_validate_default(field_path, Get(field_def, "type").s,
                                           Get(field_def, "default"))
     ELSE <<>>)
    \o
    (IF Has(field_def, "constraints")
     THEN SchemaValidator_validate_constraints(field_path, Get(field_def, "constraints"))
     ELSE <<>>)
    \o
    (IF /\ Has(field_def, "default")
        /\ TypeValid(field_def)
        /\ Has(field_def, "constraints")
        /\ IsDict(Get(field_def, "constraints"))
        /\ SchemaValidator_validate_constraints(field_path,
                                                Get(field_def, "constraints")) = <<>>
        /\ _validate_constraints(field_path, Get(field_def, "type"),
                                 Get(field_def, "default"),
                                 Get(field_def, "constraints")) # <<>>
     THEN <<SchemaErr(field_path, "default violates constraints")>>
     ELSE <<>>)
    \o
    (IF Has(field_def, "policy")
     THEN SchemaValidator_validate_policy(field_path, Get(field_def, "policy"))
     ELSE <<>>)

\* SchemaValidator._validate_field: the errors it appends when it returns
SchemaValidator_validate_field(field_path, field_def) ==
    (IF GetOrNone(field_def, "type") = JNull
     THEN <<SchemaErr(field_path, "type is required")>>
     ELSE IF ~TypeValid(field_def)
     THEN <<SchemaErr(field_path, "type must be one of")>>
     ELSE <<>>)
    \o
    (IF ~Has(field_def, "default")
     THEN <<SchemaErr(field_path, "default is required")>>
     ELSE IF TypeValid(field_def)
     THEN SchemaValidator_validate_default(field_path, Get(field_def, "type").s,
                                           Get(field_def, "default"))
     ELSE <<>>)
    \o
    (IF Has(field_def, "constraints")
     THEN SchemaValidator_validate_constraints(field_path, Get(field_def, "constraints"))
     ELSE <<>>)
    \o
    (IF Has(field_def, "policy")
     THEN SchemaValidator_validate_policy(field_path, Get(field_def, "policy"))
     ELSE <<>>)

\* the loop over ns_value.items() left at the first defective field
SchemaFieldErrors_first_defect(ns_path, ns_value) ==
    LET defective == {j \in DOMAIN ns_value.d :
                        \/ ~IsDict(ns_value.d[j][2])
                        \/ SchemaValidator_validate_field(
                              ns_path \o "." \o ns_value.d[j][1], ns_value.d[j][2]) # <<>>}
    IN  IF defective = {}
        THEN <<>>
        ELSE LET j == CHOOSE k \in defective : \A m \in defective : k <= m
             IN  IF ~IsDict(ns_value.d[j][2])
                 THEN <<SchemaErr(ns_path \o "." \o ns_value.d[j][1],
                                  "Field definition must be a dict")>>
                 ELSE SchemaValidator_validate_field(ns_path \o "." \o ns_value.d[j][1],
                                                     ns_value.d[j][2])

\* the loop over ns_value.items(), lines 151-165
SchemaFieldErrors(ns_path, ns_value) ==
    ConcatTo([j \in DOMAIN ns_value.d |->
                IF ~IsDict(ns_value.d[j][2])
                THEN <<SchemaErr(ns_path \o "." \o ns_value.d[j][1],
                                 "Field definition must be a dict")>>
                ELSE SchemaValidator_validate_field(ns_path \o "." \o ns_value.d[j][1],
                                                    ns_value.d[j][2])],
             Len(ns_value.d))

\* the body of the loop over namespaces.items(), lines 140-165
SchemaNamespaceErrors(ns_name, ns_value) ==
    IF ~IsDict(ns_value)
    THEN <<SchemaErr("namespaces." \o ns_name, "must be a dict of field definitions")>>
    ELSE SchemaFieldErrors("namespaces." \o ns_name, ns_value)

\* some field definition the loops reach makes _validate_field raise
SchemaRaises(namespaces) ==
    \E i \in DOMAIN namespaces.d :
        /\ IsDict(namespaces.d[i][2])
        /\ \E j \in DOMAIN namespaces.d[i][2].d :
             /\ IsDict(namespaces.d[i][2].d[j][2])
             /\ FieldRaises(namespaces.d[i][2].d[j][2]) # ""

\* validate taking an empty namespaces mapping for a schema
SchemaValidator_validate_empty_ok(schema_definition) ==
    IF ~IsDict(schema_definition) \/ ~Has(schema_definition, "namespaces")
    THEN [raised |-> "SchemaValidationError",
          errors |-> <<SchemaErr("namespaces", "Top-level key namespaces is required")>>]
    ELSE LET namespaces == Get(schema_definition, "namespaces")
         IN  IF ~IsDict(namespaces)
             THEN [raised |-> "SchemaValidationError",
                   errors |-> <<SchemaErr("namespaces", "must be a non-empty dict")>>]
             ELSE IF SchemaRaises(namespaces)
             THEN [raised |-> "TypeError", errors |-> <<>>]
             ELSE LET errors == ConcatTo([i \in DOMAIN namespaces.d |->
                                    SchemaNamespaceErrors(namespaces.d[i][1],
                                                          namespaces.d[i][2])],
                                  Len(namespaces.d))
                  IN  [raised |-> IF errors # <<>> THEN "SchemaValidationError" ELSE "",
                       errors |-> errors]

\* SchemaValidator.validate: raised is "" when it returns None, else the name
\* of the exception; errors is SchemaValidationError.errors
SchemaValidator_validate(schema_definition) ==
    IF ~IsDict(schema_definition) \/ ~Has(schema_definition, "namespaces")
    THEN [raised |-> "SchemaValidationError",
          errors |-> <<SchemaErr("namespaces", "Top-level key namespaces is required")>>]
    ELSE LET namespaces == Get(schema_definition, "namespaces")
         IN  IF ~IsDict(namespaces) \/ Len(namespaces.d) = 0
             THEN [raised |-> "SchemaValidationError",
                   errors |-> <<SchemaErr("namespaces", "must be a non-empty dict")>>]
             ELSE IF SchemaRaises(namespaces)
             THEN [raised |-> "TypeError", errors |-> <<>>]
             ELSE LET errors == ConcatTo([i \in DOMAIN namespaces.d |->
                                    SchemaNamespaceErrors(namespaces.d[i][1],
                                                          namespaces.d[i][2])],
                                  Len(namespaces.d))
                  IN  [raised |-> IF errors # <<>> THEN "SchemaValidationError" ELSE "",
                       errors |-> errors]

(***************************************************************************)
(* The inputs: schemas that SchemaValidator accepts, and override layers   *)
(***************************************************************************)
\* the largest number of entries (fields, or namespaces given whole) of one
\* override layer
MaxEntries == 2

Field(pairs) == JDict(pairs)

StrList(a) == JList([i \in DOMAIN a |-> JStr(a[i])])

\* after REALISTIC_SCHEMA of the tests: required and constrained fields, an
\* environment-restricted one
SchemaV1 ==
    JDict(<< <<"namespaces", JDict(<<
        <<"payments", JDict(<<
            <<"amount", Field(<< <<"type", JStr("float")>>, <<"default", JFloat(6)>>,
                                 <<"required", JBool(TRUE)>>, <<"editable", JBool(TRUE)>>,
                                 <<"constraints", JDict(<< <<"min", JInt(2)>>,
                                                           <<"max", JInt(5)>> >>)>> >>)>>,
            <<"currency", Field(<< <<"type", JStr("string")>>, <<"default", JStr("USD")>>,
                                   <<"required", JBool(TRUE)>>, <<"editable", JBool(TRUE)>>,
                                   <<"constraints", JDict(<< <<"allowed_values",
                                        StrList(<<"USD", "EUR">>)>> >>)>> >>)>> >>)>>,
        <<"features", JDict(<<
            <<"dark_mode", Field(<< <<"type", JStr("boolean")>>, <<"default", JBool(FALSE)>>,
                                    <<"required", JBool(FALSE)>>, <<"editable", JBool(TRUE)>>,
                                    <<"policy", JDict(<< <<"environment_restrictions",
                                        StrList(<<"staging">>)>> >>)>> >>)>> >>)>>
    >>)>> >>)

\* an immutable, role-restricted and constrained field; a dict field whose
\* required is no boolean and whose policy is empty; a field under both policies
\* whose editable is no boolean (SchemaValidator checks neither key)
SchemaV2 ==
    JDict(<< <<"namespaces", JDict(<<
        <<"payments", JDict(<<
            <<"amount", Field(<< <<"type", JStr("integer")>>, <<"default", JInt(3)>>,
                                 <<"editable", JBool(FALSE)>>,
                                 <<"constraints", JDict(<< <<"min", JInt(2)>>,
                                                           <<"max", JInt(5)>> >>)>>,
                                 <<"policy", JDict(<< <<"editable_by_roles",
                                        StrList(<<"admin">>)>> >>)>> >>)>>,
            <<"currency", Field(<< <<"type", JStr("dict")>>,
                                   <<"default", JDict(<< <<"code", JStr("USD")>> >>)>>,
                                   <<"required", JInt(1)>>,
                                   <<"policy", JDict(<<>>)>> >>)>> >>)>>,
        <<"features", JDict(<<
            <<"dark_mode", Field(<< <<"type", JStr("boolean")>>, <<"default", JBool(TRUE)>>,
                                    <<"required", JBool(TRUE)>>, <<"editable", JInt(0)>>,
                                    <<"policy", JDict(<<
                                        <<"editable_by_roles", StrList(<<"admin">>)>>,
                                        <<"environment_restrictions",
                                          StrList(<<"staging">>)>> >>)>> >>)>> >>)>>
    >>)>> >>)

\* a later schema: the features namespace and payments.amount are gone
SchemaV3 ==
    JDict(<< <<"namespaces", JDict(<<
        <<"payments", JDict(<<
            <<"currency", Field(<< <<"type", JStr("string")>>, <<"default", JStr("USD")>>,
                                   <<"editable", JBool(FALSE)>>,
                                   <<"constraints", JDict(<< <<"allowed_values",
                                        StrList(<<"USD", "EUR">>)>> >>)>> >>)>>,
            <<"processor_id", Field(<< <<"type", JStr("string")>>,
                                       <<"default", JStr("stripe_v2")>>,
                                       <<"required", JBool(TRUE)>> >>)>> >>)>>
    >>)>> >>)

\* constraints on a field of every type: min, max and allowed_values together,
\* min alone, and min and max on types that have no size
SchemaV4 ==
    JDict(<< <<"namespaces", JDict(<<
        <<"limits", JDict(<<
            <<"count", Field(<< <<"type", JStr("integer")>>, <<"default", JInt(3)>>,
                                <<"constraints", JDict(<<
                                    <<"min", JInt(2)>>, <<"max", JInt(4)>>,
                                    <<"allowed_values",
                                      JList(<<JInt(1), JInt(3), JInt(5)>>)>> >>)>> >>)>>,
            <<"ratio", Field(<< <<"type", JStr("float")>>, <<"default", JFloat(3)>>,
                                <<"constraints", JDict(<< <<"min", JFloat(2)>>,
                                                          <<"max", JFloat(5)>> >>)>> >>)>>,
            <<"tags", Field(<< <<"type", JStr("list")>>, <<"default", StrList(<<"a">>)>>,
                               <<"constraints", JDict(<< <<"min", JInt(1)>>,
                                                         <<"max", JInt(2)>> >>)>> >>)>>,
            <<"label", Field(<< <<"type", JStr("string")>>, <<"default", JStr("x")>>,
                                <<"constraints", JDict(<<
                                    <<"min", JInt(5)>>, <<"max", JInt(9)>>,
                                    <<"allowed_values", StrList(<<"x", "y">>)>> >>)>> >>)>>,
            <<"flag", Field(<< <<"type", JStr("boolean")>>, <<"default", JBool(FALSE)>>,
                               <<"constraints", JDict(<< <<"min", JInt(5)>>,
                                                         <<"max", JInt(9)>> >>)>> >>)>>,
            <<"meta", Field(<< <<"type", JStr("dict")>>, <<"default", JDict(<<>>)>>,
                               <<"constraints", JDict(<< <<"min", JInt(5)>>,
                                                         <<"max", JInt(9)>> >>)>> >>)>>,
            <<"floor", Field(<< <<"type", JStr("integer")>>, <<"default", JInt(2)>>,
                                <<"constraints", JDict(<< <<"min", JInt(2)>> >>)>> >>)>>
        >>)>>
    >>)>> >>)

Schemas == {SchemaV1, SchemaV2, SchemaV3}

Roles == {"admin", "viewer"}

Environments == {"staging", "prod"}

\* the order in which a layer lists its namespaces and a namespace its fields
NsOrder == <<"payments", "features", "ghost_namespace", "limits">>

FieldOrder == <<"amount", "currency", "dark_mode", "ghost_field",
               "count", "ratio", "tags", "label", "flag", "meta", "floor">>

\* one entry of a layer: field f of namespace ns set to v, or (f = "") the
\* namespace given whole as v, an empty mapping or a value that is no mapping
Entry(ns, f, v) == [ns |-> ns, f |-> f, v |-> v]

Consistent(S) ==
    \A a, b \in S : a # b => \/ a.ns # b.ns
                             \/ (a.f # "" /\ b.f # "" /\ a.f # b.f)

NsValueOf(S, ns) ==
    IF \E a \in S : a.ns = ns /\ a.f = ""
    THEN (CHOOSE a \in S : a.ns = ns /\ a.f = "").v
    ELSE LET fs == SelectSeq(FieldOrder, LAMBDA f : \E a \in S : a.ns = ns /\ a.f = f)
         IN  JDict([j \in DOMAIN fs |->
                     <<fs[j], (CHOOSE a \in S : a.ns = ns /\ a.f = fs[j]).v>>])

LayerOf(S) ==
    LET nss == SelectSeq(NsOrder, LAMBDA ns : \E a \in S : a.ns = ns)
    IN  JDict([i \in DOMAIN nss |-> <<nss[i], NsValueOf(S, nss[i])>>])

\* every layer of at most MaxEntries entries, and no layer at all (None)
LayersOf(entries) ==
    {LayerOf(S) : S \in {T \in SUBSET entries : Cardinality(T) <= MaxEntries
                                                /\ Consistent(T)}}
    \cup {JNull}

GhostEntries ==
    {Entry("payments", "ghost_field", JInt(1)),
     Entry("ghost_namespace", "ghost_field", JInt(1)),
     Entry("features", "", JInt(5)),
     Entry("payments", "", JDict(<<>>))}

\* the layers resolve is called with
ResolveLayers ==
    LayersOf({Entry("payments", "amount", JInt(4)),
              Entry("payments", "currency", JStr("EUR")),
              Entry("payments", "currency", JDict(<< <<"symbol", JStr("E")>> >>)),
              Entry("features", "dark_mode", JNull)}
             \cup GhostEntries)

\* the blobs validate is called with: values of the right and of the wrong
\* type, inside and outside the constraints
ValidateBlobs ==
    LayersOf({Entry("payments", "amount", v) :
                v \in {JFloat(2), JInt(3), JStr("oops"), JBool(TRUE)}}
             \cup {Entry("payments", "currency", v) :
                v \in {JStr("EUR"), JStr("CAD"), JDict(<< <<"symbol", JStr("E")>> >>)}}
             \cup {Entry("features", "dark_mode", v) : v \in {JBool(TRUE), JInt(1)}}
             \cup {Entry("features", "", JDict(<<>>))}
             \cup GhostEntries)

\* the blobs for the constrained fields of SchemaV4: values below, at, between
\* and above the bounds, inside and outside the allowed values
ConstraintBlobs ==
    LayersOf({Entry("limits", "count", JInt(i)) : i \in 1..6}
             \cup {Entry("limits", "ratio", v) :
                     v \in {JFloat(1), JFloat(2), JInt(2), JFloat(5), JInt(3)}}
             \cup {Entry("limits", "tags", StrList(a)) :
                     a \in {<<>>, <<"a">>, <<"a", "b">>, <<"a", "b", "c">>}}
             \cup {Entry("limits", "label", JStr(x)) : x \in {"x", "z"}}
             \cup {Entry("limits", "flag", JBool(TRUE)),
                   Entry("limits", "meta", JDict(<< <<"k", JInt(1)>> >>)),
                   Entry("limits", "floor", JInt(1)),
                   Entry("limits", "floor", JInt(2))})

(***************************************************************************)
(* The calls                                                               *)
(***************************************************************************)
NoResolved == [raised |-> "not called", value |-> JNull]

NoValidation == [raised |-> "not called", valid |-> FALSE, errors |-> <<>>]

NoResponse == [call |-> "", status |-> "", effective_config |-> JNull]

NoSchemaValidation == [raised |-> "not called", errors |-> <<>>]

\* ConfigResolver.resolve(schema, org_overrides, user_overrides)
Resolve ==
    /\ "resolve" \notin pc
    /\ resolved' = resolve(schema, org_overrides, user_overrides)
    /\ pc' = pc \cup {"resolve"}
    /\ UNCHANGED <<schema, org_overrides, user_overrides, acting_role, environment,
                   config_overrides, validation, response, schema_validation,
                   heap, rows, calls>>

\* OverrideValidationService.validate(request)
Validate ==
    /\ "validate" \notin pc
    /\ validation' = validate(schema, org_overrides, acting_role, environment)
    /\ pc' = pc \cup {"validate"}
    /\ UNCHANGED <<schema, org_overrides, user_overrides, acting_role, environment,
                   config_overrides, resolved, response, schema_validation,
                   heap, rows, calls>>

\* resolve on any schema and any two layers
InitResolve ==
    /\ schema \in Schemas
    /\ org_overrides \in ResolveLayers
    /\ user_overrides \in ResolveLayers
    /\ acting_role = "admin"
    /\ environment = "prod"
    /\ config_overrides = JDict(<<>>)
    /\ pc = {}
    /\ resolved = NoResolved
    /\ validation = NoValidation
    /\ response = NoResponse
    /\ schema_validation = NoSchemaValidation
    /\ heap = <<>>
    /\ rows = <<>>
    /\ calls = <<>>

SpecResolve == InitResolve /\ [][Resolve]_vars

\* validate, and resolve, on any schema, blob, role and environment
InitValidate ==
    /\ schema \in Schemas
    /\ org_overrides \in ValidateBlobs
    /\ user_overrides = JNull
    /\ acting_role \in Roles
    /\ environment \in Environments
    /\ config_overrides = JDict(<<>>)
    /\ pc = {}
    /\ resolved = NoResolved
    /\ validation = NoValidation
    /\ response = NoResponse
    /\ schema_validation = NoSchemaValidation
    /\ heap = <<>>
    /\ rows = <<>>
    /\ calls = <<>>

NextValidate == Validate \/ Resolve

SpecValidate == InitValidate /\ [][NextValidate]_vars

(***************************************************************************)
(* The documents SchemaValidator.validate is called with                   *)
(***************************************************************************)
\* marks a key the mapping does not have
Absent == [t |-> "absent", n |-> 0, s |-> "", l |-> <<>>, d |-> <<>>]

Opt(key, v) == IF v = Absent THEN <<>> ELSE << <<key, v>> >>

FieldDef(type, default, constraints, policy, required, editable) ==
    JDict(Opt("type", type) \o Opt("default", default) \o Opt("required", required)
          \o Opt("editable", editable) \o Opt("constraints", constraints)
          \o Opt("policy", policy))

\* a value of every kind
ValuesOfEveryKind ==
    {JNull, JBool(TRUE), JInt(3), JFloat(3), JStr("x"), StrList(<<"a">>),
     JDict(<< <<"k", JInt(1)>> >>)}

\* what a definition can hold under type: the six names, another name, values
\* that are no strings, nothing
TypeValues ==
    {JStr(t) : t \in _VALID_TYPES}
    \cup {JStr("number"), JInt(1), JNull, StrList(<<"string">>), JDict(<<>>), Absent}

TypeDefaultDefs ==
    {FieldDef(type, default, Absent, Absent, Absent, Absent) :
        type \in TypeValues, default \in ValuesOfEveryKind \cup {Absent}}

BoundValues == {Absent, JInt(1), JInt(5), JFloat(3), JBool(TRUE), JStr("1"), JNull}

ConstraintBlocks ==
    {JDict(Opt("min", lo) \o Opt("max", hi) \o Opt("allowed_values", av)
           \o Opt("pattern", other)) :
        lo \in BoundValues, hi \in BoundValues,
        av \in {Absent, JList(<<>>), JList(<<JInt(1)>>), JStr("a")},
        other \in {Absent, JStr(".*")}}
    \cup {JList(<<>>), JStr("min")}

ConstraintDefs ==
    {FieldDef(JStr("integer"), JInt(3), c, Absent, Absent, Absent) : c \in ConstraintBlocks}

PolicyListValues ==
    {Absent, JList(<<>>), StrList(<<"admin">>), JList(<<JStr("admin"), JInt(1)>>),
     JStr("admin"), JNull}

PolicyBlocks ==
    {JDict(Opt("editable_by_roles", r) \o Opt("environment_restrictions", v)
           \o Opt("owner", other)) :
        r \in PolicyListValues, v \in PolicyListValues, other \in {Absent, JStr("ops")}}
    \cup {JList(<<>>), JStr("admin")}

PolicyDefs ==
    {FieldDef(JStr("string"), JStr("x"), Absent, p, Absent, Absent) : p \in PolicyBlocks}

FlagValues == {Absent, JBool(TRUE), JBool(FALSE), JInt(1), JStr("yes")}

FlagDefs ==
    {FieldDef(JStr("boolean"), JBool(FALSE), Absent, Absent, r, e) :
        r \in FlagValues, e \in FlagValues}

\* definitions with defects under several keys at once
MixedDefs ==
    {FieldDef(type, default, c, p, Absent, Absent) :
        type \in {Absent, JStr("number"), JStr("float")},
        default \in {Absent, JBool(TRUE)},
        c \in {Absent, JDict(<< <<"min", JInt(5)>>, <<"max", JInt(1)>> >>)},
        p \in {Absent, JDict(<< <<"editable_by_roles", JList(<<>>)>> >>)}}

FieldDefs == TypeDefaultDefs \cup ConstraintDefs \cup PolicyDefs \cup FlagDefs \cup MixedDefs

Document(namespaces) == JDict(<< <<"namespaces", namespaces>> >>)

\* one namespace holding one field
OneFieldDocuments ==
    {Document(JDict(<< <<"payments", JDict(<< <<"amount", d>> >>)>> >>)) : d \in FieldDefs}

\* the definitions the documents of several fields are made of: a sound one,
\* defective ones, one that is no mapping
SomeDefs ==
    {FieldDef(JStr("string"), JStr("x"), Absent, Absent, Absent, Absent),
     FieldDef(Absent, Absent, Absent, Absent, Absent, Absent),
     FieldDef(JStr("integer"), JInt(3), JDict(<< <<"min", JInt(5)>>, <<"max", JInt(1)>> >>),
              Absent, Absent, Absent),
     FieldDef(JStr("string"), JStr("x"), Absent,
              JDict(<< <<"editable_by_roles", JList(<<>>)>> >>), JInt(1), Absent),
     FieldDef(StrList(<<"string">>), JStr("x"), Absent, Absent, Absent, Absent),
     JStr("string")}

\* what a namespace can hold: no mapping, no field, one field, two fields
NamespaceValues ==
    {JInt(5), JDict(<<>>)}
    \cup {JDict(<< <<"amount", d>> >>) : d \in SomeDefs}
    \cup {JDict(<< <<"amount", d>>, <<"currency", e>> >>) : d \in SomeDefs, e \in SomeDefs}

ManyFieldDocuments ==
    {Document(JDict(<< <<"payments", v>> >>)) : v \in NamespaceValues}
    \cup {Document(JDict(<< <<"payments", v>>, <<"features", w>> >>)) :
            v \in NamespaceValues, w \in NamespaceValues}

\* no mapping, no namespaces key, namespaces that is no non-empty mapping
TopLevelDocuments ==
    {JNull, JList(<<>>), JStr("namespaces"), JInt(1), JDict(<<>>),
     JDict(<< <<"version", JInt(1)>> >>),
     JList(<<JStr("namespaces")>>)}
    \cup {Document(v) : v \in {JNull, JList(<<>>), JDict(<<>>), JStr("x"), JInt(0),
                               JList(<<JDict(<<>>)>>)}}

SchemaDocuments ==
    OneFieldDocuments \cup ManyFieldDocuments \cup TopLevelDocuments
    \cup {SchemaV1, SchemaV2, SchemaV3, SchemaV4}

\* SchemaValidator.validate(schema_definition)
ValidateSchema ==
    /\ "validate_schema" \notin pc
    /\ schema_validation' = SchemaValidator_validate(schema)
    /\ pc' = pc \cup {"validate_schema"}
    /\ UNCHANGED <<schema, org_overrides, user_overrides, acting_role, environment,
                   config_overrides, resolved, validation, response,
                   heap, rows, calls>>

InitSchema ==
    /\ schema \in SchemaDocuments
    /\ org_overrides = JNull
    /\ user_overrides = JNull
    /\ acting_role = "admin"
    /\ environment = "prod"
    /\ config_overrides = JDict(<<>>)
    /\ pc = {}
    /\ resolved = NoResolved
    /\ validation = NoValidation
    /\ response = NoResponse
    /\ schema_validation = NoSchemaValidation
    /\ heap = <<>>
    /\ rows = <<>>
    /\ calls = <<>>

SpecSchema == InitSchema /\ [][ValidateSchema]_vars

\* validate on the constrained fields
InitConstraints ==
    /\ schema = SchemaV4
    /\ org_overrides \in ConstraintBlobs
    /\ user_overrides = JNull
    /\ acting_role = "admin"
    /\ environment = "prod"
    /\ config_overrides = JDict(<<>>)
    /\ pc = {}
    /\ resolved = NoResolved
    /\ validation = NoValidation
    /\ response = NoResponse
    /\ schema_validation = NoSchemaValidation
    /\ heap = <<>>
    /\ rows = <<>>
    /\ calls = <<>>

SpecConstraints == InitConstraints /\ [][Validate]_vars

(***************************************************************************)
(* org_service: one organisation, created with empty config_overrides, and *)
(* the active GlobalConfigSchema (JNull when no schema is active)          *)
(***************************************************************************)
\* the blobs a caller proposes: override_blob dicts
ProposedBlobs ==
    {b \in LayersOf({Entry("payments", "amount", JInt(3)),
                     Entry("payments", "currency", JStr("EUR")),
                     Entry("payments", "currency", JStr("CAD")),
                     Entry("features", "dark_mode", JBool(TRUE)),
                     Entry("payments", "ghost_field", JInt(1))}) : IsDict(b)}

\* apply_config_overrides saving the blob whatever the validation result
StoredAfterApply_saves_unchecked(result, stored, overrides) == overrides

\* org.config_overrides after apply_config_overrides: the early return on
\* not result.valid, else the assignment and org.save
StoredAfterApply(result, stored, overrides) ==
    IF ~result.valid THEN stored ELSE overrides

\* apply_config_overrides(org_id, overrides, acting_role, environment)
ApplyConfigOverrides ==
    \E overrides \in ProposedBlobs, role \in Roles, env \in Environments :
        /\ org_overrides' = overrides
        /\ acting_role' = role
        /\ environment' = env
        /\ IF schema = JNull
           THEN /\ response' = [call |-> "apply_config_overrides", status |-> "Http404",
                                effective_config |-> JNull]
                /\ validation' = NoValidation
                /\ resolved' = NoResolved
                /\ UNCHANGED config_overrides
           ELSE LET result == validate(schema, overrides, role, env)
                    stored == StoredAfterApply(result, config_overrides, overrides)
                    effective == resolve(schema, stored, JNull)
                IN  /\ validation' = result
                    /\ config_overrides' = stored
                    /\ resolved' = IF result.valid THEN effective ELSE NoResolved
                    /\ response' =
                         [call |-> "apply_config_overrides",
                          status |-> IF ~result.valid \/ effective.raised = ""
                                     THEN "returned" ELSE effective.raised,
                          effective_config |-> IF result.valid THEN effective.value
                                               ELSE JNull]
        /\ UNCHANGED <<schema, user_overrides, pc, schema_validation, heap, rows, calls>>

\* get_effective_config(org_id)
GetEffectiveConfig ==
    /\ IF schema = JNull
       THEN /\ response' = [call |-> "get_effective_config", status |-> "Http404",
                            effective_config |-> JNull]
            /\ resolved' = NoResolved
       ELSE LET effective == resolve(schema, config_overrides, JNull)
            IN  /\ resolved' = effective
                /\ response' = [call |-> "get_effective_config",
                                status |-> IF effective.raised = "" THEN "returned"
                                           ELSE effective.raised,
                                effective_config |-> effective.value]
    /\ UNCHANGED <<schema, org_overrides, user_overrides, acting_role, environment,
                   config_overrides, validation, pc, schema_validation,
                   heap, rows, calls>>

Init ==
    /\ schema \in Schemas \cup {JNull}
    /\ org_overrides = JDict(<<>>)
    /\ user_overrides = JNull
    /\ acting_role = "admin"
    /\ environment = "prod"
    /\ config_overrides = JDict(<<>>)
    /\ pc = {}
    /\ resolved = NoResolved
    /\ validation = NoValidation
    /\ response = NoResponse
    /\ schema_validation = NoSchemaValidation
    /\ heap = <<>>
    /\ rows = <<>>
    /\ calls = <<>>

Next == ApplyConfigOverrides \/ GetEffectiveConfig

Spec == Init /\ [][Next]_vars

(***************************************************************************)
(* Claims about ConfigResolver.resolve (SpecResolve)                       *)
(***************************************************************************)
Namespaces == Get(schema, "namespaces")

\* the layer holds a mapping for ns that contains f
LayerHolds(layer, ns, f) ==
    /\ layer.t = "dict"
    /\ \E i \in DOMAIN layer.d :
         /\ layer.d[i][1] = ns
         /\ layer.d[i][2].t = "dict"
         /\ \E j \in DOMAIN layer.d[i][2].d : layer.d[i][2].d[j][1] = f

LayerValue(layer, ns, f) == Get(Get(layer, ns), f)

SchemaDefault(ns, f) == Get(Get(Get(Namespaces, ns), f), "default")

\* the value of the highest layer that holds the field
Chosen(ns, f) ==
    IF LayerHolds(user_overrides, ns, f) THEN LayerValue(user_overrides, ns, f)
    ELSE IF LayerHolds(org_overrides, ns, f) THEN LayerValue(org_overrides, ns, f)
    ELSE SchemaDefault(ns, f)

\* C1: after resolve, every field of every schema namespace holds the user
\* layer's value when that layer holds a mapping for the namespace with the
\* field, else the org layer's value on the same condition, else the schema
\* default; the value is the chosen one whole, never a key-by-key merge, and a
\* layer that is None or empty changes nothing.
C1_Precedence ==
    "resolve" \in pc =>
        /\ resolved.raised = ""
        /\ \A ns \in Keys(Namespaces) : \A f \in Keys(Get(Namespaces, ns)) :
             /\ Has(resolved.value, ns)
             /\ Has(Get(resolved.value, ns), f)
             /\ Get(Get(resolved.value, ns), f) = Chosen(ns, f)
        /\ (~Truthy(org_overrides) /\ ~Truthy(user_overrides)) =>
             resolved.value = BaseDefaults(Namespaces)

\* C1 witness: both layers override one field with different values, the
\* user's value and the default are dicts with different keys, and the result
\* is the user's dict alone
C1_Witness ==
    /\ "resolve" \in pc
    /\ \E ns \in Keys(Namespaces) : \E f \in Keys(Get(Namespaces, ns)) :
         /\ LayerHolds(user_overrides, ns, f)
         /\ LayerHolds(org_overrides, ns, f)
         /\ LayerValue(user_overrides, ns, f) # LayerValue(org_overrides, ns, f)
         /\ LayerValue(user_overrides, ns, f).t = "dict"
         /\ SchemaDefault(ns, f).t = "dict"
         /\ Keys(SchemaDefault(ns, f)) # Keys(LayerValue(user_overrides, ns, f))
         /\ Get(Get(resolved.value, ns), f) = LayerValue(user_overrides, ns, f)

\* C2: the namespaces of the output are exactly the schema's and the fields of
\* each are exactly the declared ones, each key once.
C2_Completeness ==
    "resolve" \in pc =>
        /\ resolved.raised = ""
        /\ Keys(resolved.value) = Keys(Namespaces)
        /\ Len(resolved.value.d) = Cardinality(Keys(Namespaces))
        /\ \A ns \in Keys(Namespaces) :
             /\ Get(resolved.value, ns).t = "dict"
             /\ Keys(Get(resolved.value, ns)) = Keys(Get(Namespaces, ns))
             /\ Len(Get(resolved.value, ns).d) = Cardinality(Keys(Get(Namespaces, ns)))

\* C2 witness: a layer with an unknown namespace and one with an unknown field
\* of a known namespace went through resolve
C2_Witness ==
    /\ "resolve" \in pc
    /\ resolved.raised = ""
    /\ Has(org_overrides, "ghost_namespace")
    /\ LayerHolds(user_overrides, "payments", "ghost_field")
    /\ LayerHolds(user_overrides, "payments", "currency")

\* the layer without the entries resolve has to skip
TrimLayer(layer) ==
    IF layer.t # "dict" THEN layer
    ELSE LET kept == SelectSeq(layer.d,
                        LAMBDA e : e[1] \in Keys(Namespaces) /\ e[2].t = "dict")
         IN  JDict([i \in DOMAIN kept |->
                     <<kept[i][1],
                       JDict(SelectSeq(kept[i][2].d,
                                LAMBDA g : g[1] \in Keys(Get(Namespaces, kept[i][1]))))>>])

\* C5: resolve does not raise on a layer with unknown namespaces, namespaces
\* whose value is no mapping, or unknown fields, and returns what it returns
\* for the layers with those entries removed.
C5_UnknownContentSkipped ==
    "resolve" \in pc =>
        /\ resolved.raised = ""
        /\ resolved = resolve(schema, TrimLayer(org_overrides), TrimLayer(user_overrides))

\* C5 witness: the org layer holds a namespace that is no mapping and the user
\* layer an unknown namespace beside an entry that takes effect
C5_Witness ==
    /\ "resolve" \in pc
    /\ resolved.raised = ""
    /\ \E i \in DOMAIN org_overrides.d :
         org_overrides.d[i][1] \in Keys(Namespaces) /\ org_overrides.d[i][2].t # "dict"
    /\ Has(user_overrides, "ghost_namespace")
    /\ TrimLayer(user_overrides) # JDict(<<>>)
    /\ resolved.value # BaseDefaults(Namespaces)

(***************************************************************************)
(* Claims about OverrideValidationService.validate (SpecValidate)          *)
(***************************************************************************)
\* the namespaces of the blob that exist in the schema and hold a mapping
TouchedNamespaces ==
    IF org_overrides.t # "dict" THEN {}
    ELSE {ns \in Keys(org_overrides) \cap Keys(Namespaces) :
            Get(org_overrides, ns).t = "dict"}

\* <<ns, f>> for the fields the blob names in those namespaces
NamedFields ==
    UNION {{<<ns, f>> : f \in Keys(Get(org_overrides, ns))} : ns \in TouchedNamespaces}

\* those among them the schema declares
OverriddenFields == {p \in NamedFields : p[2] \in Keys(Get(Namespaces, p[1]))}

FieldDefOf(p) == Get(Get(Namespaces, p[1]), p[2])

OverrideOf(p) == Get(Get(org_overrides, p[1]), p[2])

PathOf(p) == p[1] \o "." \o p[2]

ErrorsAt(errors, path) == SelectSeq(errors, LAMBDA e : e.field = path)

\* how many errors of the code the result reports for the path
CountAt(path, code) ==
    Cardinality({i \in DOMAIN validation.errors :
                    /\ validation.errors[i].field = path
                    /\ validation.errors[i].code = code})

CountOf(code) == Cardinality({i \in DOMAIN validation.errors : validation.errors[i].code = code})

\* the blob with one namespace entry alone, and with one field alone
OnlyNamespace(i) == JDict(<<org_overrides.d[i]>>)

OnlyField(p) == JDict(<< <<p[1], JDict(<< <<p[2], OverrideOf(p)>> >>)>> >>)

\* C4: validate does not stop at the first failure: the list is the errors of
\* each namespace entry validated alone, one after the other; the errors of a
\* field are those it gets when it is the only field of the blob; and valid is
\* true exactly when the list is empty.
C4_AllErrorsAccumulated ==
    "validate" \in pc =>
        /\ validation.raised = ""
        /\ validation.valid <=> (Len(validation.errors) = 0)
        /\ validation.errors =
             ConcatTo([i \in DOMAIN org_overrides.d |->
                         validate(schema, OnlyNamespace(i), acting_role, environment).errors],
                      Len(org_overrides.d))
        /\ \A p \in NamedFields :
             ErrorsAt(validation.errors, PathOf(p)) =
             ErrorsAt(validate(schema, OnlyField(p), acting_role, environment).errors,
                      PathOf(p))

\* C4 witness: two namespaces of one blob both produce errors, three or more
\* in all
C4_Witness ==
    /\ "validate" \in pc
    /\ Len(org_overrides.d) = 2
    /\ \A i \in DOMAIN org_overrides.d :
         validate(schema, OnlyNamespace(i), acting_role, environment).errors # <<>>
    /\ Len(validation.errors) >= 3
    /\ ~validation.valid

\* C6: a field the schema does not declare, inside a namespace it declares,
\* makes validate return valid = false with an unknown_field error for
\* namespace.field, while resolve on the same schema and blob returns normally
\* without the field.
C6_ValidatorResolverAsymmetry ==
    \A p \in NamedFields \ OverriddenFields :
        /\ "validate" \in pc =>
             /\ validation.raised = ""
             /\ ~validation.valid
             /\ CountAt(PathOf(p), "unknown_field") = 1
        /\ "resolve" \in pc =>
             /\ resolved.raised = ""
             /\ Has(resolved.value, p[1])
             /\ ~Has(Get(resolved.value, p[1]), p[2])

\* C6 witness: both calls returned on a blob with an unknown field beside a
\* declared one that resolve applies
C6_Witness ==
    /\ pc = {"validate", "resolve"}
    /\ NamedFields \ OverriddenFields # {}
    /\ OverriddenFields # {}
    /\ resolved.value # BaseDefaults(Namespaces)
    /\ CountOf("unknown_field") = 1

\* the schema declares the field required = true and the blob's mapping for
\* the namespace lacks it
MissingRequired(ns, f) ==
    /\ ns \in TouchedNamespaces
    /\ f \notin Keys(Get(org_overrides, ns))
    /\ Has(Get(Get(Namespaces, ns), f), "required")
    /\ Get(Get(Get(Namespaces, ns), f), "required") = JBool(TRUE)

\* every <<ns, f>> the schema declares
SchemaFields ==
    UNION {{<<ns, f>> : f \in Keys(Get(Namespaces, ns))} : ns \in Keys(Namespaces)}

\* C7: one missing_required error, under namespace.field, for each required
\* field absent from a mapping the blob gives for a schema namespace, the empty
\* mapping included, and none for any other field or namespace.
C7_MissingRequired ==
    "validate" \in pc =>
        /\ \A p \in SchemaFields :
             CountAt(PathOf(p), "missing_required") =
                IF MissingRequired(p[1], p[2]) THEN 1 ELSE 0
        /\ CountOf("missing_required") =
             Cardinality({p \in SchemaFields : MissingRequired(p[1], p[2])})

\* C7 witness: the blob gives payments an empty mapping and no features entry;
\* both required fields of payments are reported, nothing of features
C7_Witness ==
    /\ "validate" \in pc
    /\ schema = SchemaV1
    /\ org_overrides = JDict(<< <<"payments", JDict(<<>>)>> >>)
    /\ CountAt("payments.amount", "missing_required") = 1
    /\ CountAt("payments.currency", "missing_required") = 1
    /\ CountOf("missing_required") = 2

\* the schema with field p made editable
SchemaWithEditable(p) ==
    SetItem(schema, "namespaces",
        SetItem(Namespaces, p[1],
            SetItem(Get(Namespaces, p[1]), p[2],
                SetItem(FieldDefOf(p), "editable", JBool(TRUE)))))

\* C8: for a field in both blob and schema, immutable_field is reported exactly
\* when the definition has editable = false, and the other errors of the field
\* are those validate reports with the field made editable.
C8_ImmutableReportedNotSuppressing ==
    "validate" \in pc =>
        \A p \in OverriddenFields :
            /\ CountAt(PathOf(p), "immutable_field") =
                 IF Has(FieldDefOf(p), "editable")
                    /\ Get(FieldDefOf(p), "editable") = JBool(FALSE)
                 THEN 1 ELSE 0
            /\ SelectSeq(ErrorsAt(validation.errors, PathOf(p)),
                         LAMBDA e : e.code # "immutable_field") =
               ErrorsAt(validate(SchemaWithEditable(p), org_overrides,
                                 acting_role, environment).errors, PathOf(p))

\* C8 witness: an immutable field overridden with a value of the wrong type
\* gets immutable_field and type_mismatch
C8_Witness ==
    /\ "validate" \in pc
    /\ \E p \in OverriddenFields :
         /\ Get(FieldDefOf(p), "type") = JStr("integer")
         /\ OverrideOf(p).t = "str"
         /\ CountAt(PathOf(p), "immutable_field") = 1
         /\ CountAt(PathOf(p), "type_mismatch") = 1

\* the policy key is present and its list does not hold the name
PolicyExcludes(p, key, name) ==
    /\ Has(FieldDefOf(p), "policy")
    /\ Has(Get(FieldDefOf(p), "policy"), key)
    /\ \A i \in DOMAIN Get(Get(FieldDefOf(p), "policy"), key).l :
         Get(Get(FieldDefOf(p), "policy"), key).l[i] # JStr(name)

\* C9: role_forbidden exactly when editable_by_roles is present without the
\* acting role, env_forbidden exactly when environment_restrictions is present
\* without the environment, each decided alone; neither without a policy.
C9_PolicyRules ==
    "validate" \in pc =>
        \A p \in OverriddenFields :
            /\ CountAt(PathOf(p), "role_forbidden") =
                 IF PolicyExcludes(p, "editable_by_roles", acting_role) THEN 1 ELSE 0
            /\ CountAt(PathOf(p), "env_forbidden") =
                 IF PolicyExcludes(p, "environment_restrictions", environment)
                 THEN 1 ELSE 0

\* C9 witness: one field refused for the role and for the environment, and in
\* the same blob a field without policy that gets neither
C9_Witness ==
    /\ "validate" \in pc
    /\ \E p \in OverriddenFields :
         /\ CountAt(PathOf(p), "role_forbidden") = 1
         /\ CountAt(PathOf(p), "env_forbidden") = 1
    /\ \E p \in OverriddenFields :
         /\ ~Has(FieldDefOf(p), "policy") \/ Get(FieldDefOf(p), "policy") = JDict(<<>>)
         /\ CountAt(PathOf(p), "role_forbidden") = 0
         /\ CountAt(PathOf(p), "env_forbidden") = 0

\* the type rule of the data model: integer takes ints that are no booleans,
\* float takes ints and floats that are no booleans, every other type its kind
TypeAccepts(type_name, v) ==
    CASE type_name = "string" -> v.t = "str"
      [] type_name = "integer" -> v.t = "int"
      [] type_name = "boolean" -> v.t = "bool"
      [] type_name = "float" -> v.t \in {"int", "float"}
      [] type_name = "list" -> v.t = "list"
      [] type_name = "dict" -> v.t = "dict"

Mismatched(p) == ~TypeAccepts(Get(FieldDefOf(p), "type").s, OverrideOf(p))

\* C10: an override whose value does not match the declared type gets one
\* type_mismatch and no constraint_violation, whatever the constraints, and
\* keeps its immutable_field, role_forbidden and env_forbidden errors.
C10_TypeMismatchStopsField ==
    "validate" \in pc =>
        \A p \in OverriddenFields :
            Mismatched(p) =>
                /\ CountAt(PathOf(p), "type_mismatch") = 1
                /\ CountAt(PathOf(p), "constraint_violation") = 0
                /\ CountAt(PathOf(p), "immutable_field") =
                     IF Has(FieldDefOf(p), "editable")
                        /\ Get(FieldDefOf(p), "editable") = JBool(FALSE)
                     THEN 1 ELSE 0
                /\ CountAt(PathOf(p), "role_forbidden") =
                     IF PolicyExcludes(p, "editable_by_roles", acting_role) THEN 1 ELSE 0
                /\ CountAt(PathOf(p), "env_forbidden") =
                     IF PolicyExcludes(p, "environment_restrictions", environment)
                     THEN 1 ELSE 0

\* C10 witness: a boolean for an immutable, role-restricted integer field with
\* min and max: immutable_field, role_forbidden and type_mismatch, nothing else
C10_Witness ==
    /\ "validate" \in pc
    /\ \E p \in OverriddenFields :
         /\ Mismatched(p)
         /\ OverrideOf(p).t = "bool"
         /\ Has(Get(FieldDefOf(p), "constraints"), "min")
         /\ CountAt(PathOf(p), "immutable_field") = 1
         /\ CountAt(PathOf(p), "role_forbidden") = 1
         /\ CountAt(PathOf(p), "type_mismatch") = 1
         /\ Len(ErrorsAt(validation.errors, PathOf(p))) = 3

(***************************************************************************)
(* Claims about org_service (Spec)                                         *)
(***************************************************************************)
\* C3: a call of apply_config_overrides with an active schema stores the
\* proposed blob when validate returns valid = true for it; when validate
\* returns valid = false the stored config_overrides is what it was before the
\* call and the effective configuration returned is None.
C3_PersistOnlyWhenValid ==
    [][(response'.call = "apply_config_overrides" /\ schema # JNull) =>
          LET result == validate(schema, org_overrides', acting_role', environment')
          IN  /\ validation' = result
              /\ result.valid => config_overrides' = org_overrides'
              /\ ~result.valid => /\ config_overrides' = config_overrides
                                  /\ response'.effective_config = JNull]_vars

\* C3 witness: after a blob was stored, a call with an invalid blob returned
\* its errors and no effective configuration, the stored blob still in place
C3_Witness ==
    /\ response.call = "apply_config_overrides"
    /\ response.status = "returned"
    /\ ~validation.valid
    /\ validation.errors # <<>>
    /\ response.effective_config = JNull
    /\ config_overrides # JDict(<<>>)
    /\ config_overrides # org_overrides

(***************************************************************************)
(* Claims about the constraint rule (SpecConstraints)                      *)
(***************************************************************************)
ConstraintsOf(p) == Get(FieldDefOf(p), "constraints")

\* what min and max are compared with, in halves: the value of an integer or
\* float field, the length of a list field
Measured(p) ==
    IF Get(FieldDefOf(p), "type").s = "list"
    THEN 2 * Len(OverrideOf(p).l)
    ELSE IF OverrideOf(p).t = "float" THEN OverrideOf(p).n ELSE 2 * OverrideOf(p).n

Sized(p) == Get(FieldDefOf(p), "type").s \in {"integer", "float", "list"}

BoundOf(p, key) ==
    IF Get(ConstraintsOf(p), key).t = "float" THEN Get(ConstraintsOf(p), key).n
    ELSE 2 * Get(ConstraintsOf(p), key).n

BelowMin(p) == Sized(p) /\ Has(ConstraintsOf(p), "min") /\ Measured(p) < BoundOf(p, "min")

AboveMax(p) == Sized(p) /\ Has(ConstraintsOf(p), "max") /\ Measured(p) > BoundOf(p, "max")

NotAllowed(p) ==
    /\ Has(ConstraintsOf(p), "allowed_values")
    /\ \A i \in DOMAIN Get(ConstraintsOf(p), "allowed_values").l :
         ~PyEq(OverrideOf(p), Get(ConstraintsOf(p), "allowed_values").l[i])

CountMessage(path, message) ==
    Cardinality({i \in DOMAIN validation.errors :
                    /\ validation.errors[i].field = path
                    /\ validation.errors[i].code = "constraint_violation"
                    /\ validation.errors[i].message = message})

\* C11: a type-matching override of a constrained field gets one
\* constraint_violation when below min, one when above max and one when outside
\* allowed_values, each on its own; min and max measure the value of integer and
\* float fields and the length of list fields, are ignored for string, boolean
\* and dict fields, and a value equal to a bound is no violation.
C11_ConstraintViolations ==
    "validate" \in pc =>
        \A p \in OverriddenFields :
            (~Mismatched(p) /\ Has(FieldDefOf(p), "constraints")) =>
                /\ CountMessage(PathOf(p), "below the minimum") =
                     IF BelowMin(p) THEN 1 ELSE 0
                /\ CountMessage(PathOf(p), "exceeds the maximum") =
                     IF AboveMax(p) THEN 1 ELSE 0
                /\ CountMessage(PathOf(p), "not in the allowed values") =
                     IF NotAllowed(p) THEN 1 ELSE 0
                /\ CountAt(PathOf(p), "constraint_violation") =
                     (IF BelowMin(p) THEN 1 ELSE 0) + (IF AboveMax(p) THEN 1 ELSE 0)
                     + (IF NotAllowed(p) THEN 1 ELSE 0)

\* C11 witness: an integer above max and outside allowed_values gets two
\* violations, beside a list shorter than min that gets one
C11_Witness ==
    /\ "validate" \in pc
    /\ \E p \in OverriddenFields :
         /\ Get(FieldDefOf(p), "type") = JStr("integer")
         /\ AboveMax(p) /\ NotAllowed(p)
         /\ CountAt(PathOf(p), "constraint_violation") = 2
    /\ \E p \in OverriddenFields :
         /\ Get(FieldDefOf(p), "type") = JStr("list")
         /\ BelowMin(p)
         /\ CountAt(PathOf(p), "constraint_violation") = 1

(***************************************************************************)
(* Claims about namespaces the schema lacks (SpecValidate)                 *)
(***************************************************************************)
\* the entries of the blob whose namespace the schema lacks or whose value is
\* no mapping
RefusedEntries ==
    {i \in DOMAIN org_overrides.d :
        \/ org_overrides.d[i][1] \notin Keys(Namespaces)
        \/ org_overrides.d[i][2].t # "dict"}

FieldNames == {FieldOrder[i] : i \in DOMAIN FieldOrder} \cup {"processor_id"}

\* the paths an error about namespace ns or one of its fields can carry
PathsUnder(ns) == {ns} \cup {ns \o "." \o f : f \in FieldNames}

ErrorsUnder(errors, ns) == SelectSeq(errors, LAMBDA e : e.field \in PathsUnder(ns))

\* C12: a namespace key absent from the schema, or whose value is no mapping,
\* gets exactly one error, an unknown_namespace whose field is the namespace
\* name, and nothing about its fields; every other namespace of the blob gets
\* the errors it gets when validated alone.
C12_UnknownNamespace ==
    "validate" \in pc =>
        /\ \A i \in RefusedEntries :
             /\ Len(ErrorsUnder(validation.errors, org_overrides.d[i][1])) = 1
             /\ ErrorsUnder(validation.errors, org_overrides.d[i][1])[1].code =
                  "unknown_namespace"
             /\ ErrorsUnder(validation.errors, org_overrides.d[i][1])[1].field =
                  org_overrides.d[i][1]
        /\ \A j \in DOMAIN org_overrides.d \ RefusedEntries :
             ErrorsUnder(validation.errors, org_overrides.d[j][1]) =
             validate(schema, OnlyNamespace(j), acting_role, environment).errors
        /\ CountOf("unknown_namespace") = Cardinality(RefusedEntries)

\* C12 witness: a namespace given as a non-mapping, whose schema fields include
\* a required one, beside a namespace whose fields get errors
C12_Witness ==
    /\ "validate" \in pc
    /\ \E i \in RefusedEntries :
         /\ org_overrides.d[i][1] \in Keys(Namespaces)
         /\ \E f \in Keys(Get(Namespaces, org_overrides.d[i][1])) :
              GetOrNone(Get(Get(Namespaces, org_overrides.d[i][1]), f), "required")
                = JBool(TRUE)
    /\ \E j \in DOMAIN org_overrides.d \ RefusedEntries :
         ErrorsUnder(validation.errors, org_overrides.d[j][1]) # <<>>
    /\ CountOf("unknown_namespace") = 1

(***************************************************************************)
(* Claims about SchemaValidator.validate (SpecSchema)                      *)
(***************************************************************************)
\* the schemas the other specifications start from pass SchemaValidator
SchemasAreValid ==
    \A doc \in Schemas \cup {SchemaV4} : SchemaValidator_validate(doc).raised = ""

\* the namespaces mapping of the document, when the top-level checks pass
TopLevelPasses ==
    /\ IsDict(schema)
    /\ Has(schema, "namespaces")
    /\ IsDict(Get(schema, "namespaces"))
    /\ Len(Get(schema, "namespaces").d) > 0

DocNamespaces == IF TopLevelPasses THEN Get(schema, "namespaces") ELSE JDict(<<>>)

\* <<ns, f>> for every field definition of the document that is a mapping
DocFields ==
    UNION {{<<ns, f>> : f \in {g \in Keys(Get(DocNamespaces, ns)) :
                                  IsDict(Get(Get(DocNamespaces, ns), g))}} :
           ns \in {n \in Keys(DocNamespaces) : IsDict(Get(DocNamespaces, n))}}

DefOf(p) == Get(Get(DocNamespaces, p[1]), p[2])

SchemaPathOf(p) == "namespaces." \o p[1] \o "." \o p[2]

\* validate ended with success or with SchemaValidationError
Reported == schema_validation.raised \in {"", "SchemaValidationError"}

\* how many errors of the report carry the path and the message
CountReported(path, message) ==
    Cardinality({i \in DOMAIN schema_validation.errors :
                    /\ schema_validation.errors[i].field = path
                    /\ schema_validation.errors[i].message = message})

DefaultTypeMessages ==
    {"default must be an integer (not bool)", "default must be a float or int (not bool)",
     "default must be of type"}

\* no error of the report refuses the default of field p for its type
DefaultAccepted(p) ==
    \A m \in DefaultTypeMessages : CountReported(SchemaPathOf(p), m) = 0

\* C13: for each of the six type names and a value of any kind, SchemaValidator
\* accepts the value as the default exactly when _type_matches accepts it as an
\* override: integer refuses booleans, float takes integers and floats and
\* refuses booleans, every other type takes values of its own kind.
C13_SameTypeRule ==
    "validate_schema" \in pc =>
        \A p \in DocFields :
            (TypeValid(DefOf(p)) /\ Has(DefOf(p), "default")) =>
                LET accepted == SchemaValidator_validate_default(
                                    SchemaPathOf(p), Get(DefOf(p), "type").s,
                                    Get(DefOf(p), "default")) = <<>>
                IN  /\ accepted <=> _type_matches(Get(DefOf(p), "type"),
                                                  Get(DefOf(p), "default"))
                    /\ accepted <=> TypeAccepts(Get(DefOf(p), "type").s,
                                                Get(DefOf(p), "default"))
                    /\ Reported => (DefaultAccepted(p) <=> accepted)

\* C13 witness: a float field whose default is an integer passes, the document
\* being valid
C13_Witness ==
    /\ "validate_schema" \in pc
    /\ schema_validation.raised = ""
    /\ \E p \in DocFields :
         /\ Get(DefOf(p), "type") = JStr("float")
         /\ Get(DefOf(p), "default").t = "int"
         /\ DefaultAccepted(p)

OnlyFieldDocument(i, j) ==
    Document(JDict(<< <<DocNamespaces.d[i][1],
                        JDict(<<DocNamespaces.d[i][2].d[j]>>)>> >>))

\* what namespace i contributes: one error under its own path when it is no
\* mapping, else the errors of each of its fields validated alone, in order
ContributionOf(i) ==
    IF ~IsDict(DocNamespaces.d[i][2])
    THEN <<SchemaErr("namespaces." \o DocNamespaces.d[i][1],
                     "must be a dict of field definitions")>>
    ELSE ConcatTo([j \in DOMAIN DocNamespaces.d[i][2].d |->
                     SchemaValidator_validate(OnlyFieldDocument(i, j)).errors],
                  Len(DocNamespaces.d[i][2].d))

TypeInvalid(p) ==
    \/ ~Has(DefOf(p), "type")
    \/ Get(DefOf(p), "type") \notin {JStr(t) : t \in _VALID_TYPES}

\* the rules on type and default, read off the report, for every definition
TypeAndDefaultReported ==
    \A p \in DocFields :
        /\ CountReported(SchemaPathOf(p), "type is required")
           + CountReported(SchemaPathOf(p), "type must be one of") =
             IF TypeInvalid(p) THEN 1 ELSE 0
        /\ CountReported(SchemaPathOf(p), "default is required") =
             IF ~Has(DefOf(p), "default") THEN 1 ELSE 0
        /\ ~DefaultAccepted(p) <=>
             /\ ~TypeInvalid(p)
             /\ Has(DefOf(p), "default")
             /\ ~TypeAccepts(Get(DefOf(p), "type").s, Get(DefOf(p), "default"))

\* C16: for each field definition validate reports an error when type is
\* absent or not one of the six type names and, on its own, an error when
\* default is absent; the default is checked against the type only when the
\* type is valid and the default present.  (Violated: a type that is a list or
\* a dict is not reported, the call ends with TypeError.)
C16_TypeAndDefaultRules == "validate_schema" \in pc => TypeAndDefaultReported

\* the same rules hold of every call that ends with success or with
\* SchemaValidationError
C16_WhenReported == ("validate_schema" \in pc /\ Reported) => TypeAndDefaultReported

\* a definition lacking type and default gets both errors
C16_BothMissingReached ==
    /\ "validate_schema" \in pc
    /\ \E p \in DocFields :
         /\ ~Has(DefOf(p), "type") /\ ~Has(DefOf(p), "default")
         /\ CountReported(SchemaPathOf(p), "type is required") = 1
         /\ CountReported(SchemaPathOf(p), "default is required") = 1

CountIn(errors, path, message) ==
    Cardinality({i \in DOMAIN errors : errors[i].field = path /\ errors[i].message = message})

\* the fields whose constraints, respectively policy, block is a mapping
FieldsWithConstraints ==
    {p \in DocFields : Has(DefOf(p), "constraints") /\ IsDict(Get(DefOf(p), "constraints"))}

FieldsWithPolicy ==
    {p \in DocFields : Has(DefOf(p), "policy") /\ IsDict(Get(DefOf(p), "policy"))}

BlockOf(p, key) == Get(DefOf(p), key)

\* an integer or a float, no boolean
NumericBound(p, key) ==
    Has(BlockOf(p, "constraints"), key)
    /\ Get(BlockOf(p, "constraints"), key).t \in {"int", "float"}

Halves(v) == IF v.t = "float" THEN v.n ELSE 2 * v.n

\* the errors of the report under the block of field p
ReportedUnder(p, key) ==
    SelectSeq(schema_validation.errors,
              LAMBDA e : e.field \in {SchemaPathOf(p) \o "." \o key \o suffix :
                                        suffix \in {"", ".min", ".max", ".allowed_values",
                                                    ".editable_by_roles",
                                                    ".environment_restrictions"}})

\* C17: for a constraints block that is a mapping, the min/max error is given
\* exactly when min and max are both numeric (no booleans) and min > max; a
\* bound that is present and not numeric gets its own error and stays out of
\* the comparison; an unknown key gets an error and the min, max and
\* allowed_values checks are made all the same.
C17_ConstraintBlockRules ==
    "validate_schema" \in pc =>
        \A p \in FieldsWithConstraints :
            LET c_path == SchemaPathOf(p) \o ".constraints"
                block == BlockOf(p, "constraints")
                errors == SchemaValidator_validate_constraints(SchemaPathOf(p), block)
            IN  /\ CountIn(errors, c_path, "min must be <= max") =
                     IF /\ NumericBound(p, "min")
                        /\ NumericBound(p, "max")
                        /\ Halves(Get(block, "min")) > Halves(Get(block, "max"))
                     THEN 1 ELSE 0
                /\ CountIn(errors, c_path \o ".min", "min must be a numeric value") =
                     IF Has(block, "min") /\ ~NumericBound(p, "min") THEN 1 ELSE 0
                /\ CountIn(errors, c_path \o ".max", "max must be a numeric value") =
                     IF Has(block, "max") /\ ~NumericBound(p, "max") THEN 1 ELSE 0
                /\ CountIn(errors, c_path, "Unknown constraint key(s)") =
                     IF Keys(block) \ {"min", "max", "allowed_values"} # {} THEN 1 ELSE 0
                /\ CountIn(errors, c_path \o ".allowed_values",
                           "allowed_values must be a non-empty list") =
                     IF /\ Has(block, "allowed_values")
                        /\ \/ Get(block, "allowed_values").t # "list"
                           \/ Get(block, "allowed_values").l = <<>>
                     THEN 1 ELSE 0
                /\ Reported => ReportedUnder(p, "constraints") = errors

\* C17 witness: min 5 above max 1 and an unknown key, both reported
C17_Witness ==
    /\ "validate_schema" \in pc
    /\ \E p \in FieldsWithConstraints :
         /\ GetOrNone(BlockOf(p, "constraints"), "min") = JInt(5)
         /\ GetOrNone(BlockOf(p, "constraints"), "max") = JInt(1)
         /\ Has(BlockOf(p, "constraints"), "pattern")
         /\ CountReported(SchemaPathOf(p) \o ".constraints", "min must be <= max") = 1
         /\ CountReported(SchemaPathOf(p) \o ".constraints", "Unknown constraint key(s)") = 1

\* the list under the key is absent, or a non-empty list of strings
SoundPolicyList(p, key) ==
    \/ ~Has(BlockOf(p, "policy"), key)
    \/ /\ Get(BlockOf(p, "policy"), key).t = "list"
       /\ Get(BlockOf(p, "policy"), key).l # <<>>
       /\ \A i \in DOMAIN Get(BlockOf(p, "policy"), key).l :
            Get(BlockOf(p, "policy"), key).l[i].t = "str"

\* C18: for a policy block that is a mapping, each of editable_by_roles and
\* environment_restrictions that is present and is no non-empty list, or holds
\* a member that is no string, gets one error, each key on its own; an unknown
\* key gets an error and both checks are made all the same.
C18_PolicyBlockRules ==
    "validate_schema" \in pc =>
        \A p \in FieldsWithPolicy :
            LET p_path == SchemaPathOf(p) \o ".policy"
                block == BlockOf(p, "policy")
                errors == SchemaValidator_validate_policy(SchemaPathOf(p), block)
            IN  /\ \A key \in {"editable_by_roles", "environment_restrictions"} :
                     Len(SelectSeq(errors, LAMBDA e : e.field = p_path \o "." \o key)) =
                     IF SoundPolicyList(p, key) THEN 0 ELSE 1
                /\ CountIn(errors, p_path, "Unknown policy key(s)") =
                     IF Keys(block) \ {"editable_by_roles", "environment_restrictions"} # {}
                     THEN 1 ELSE 0
                /\ Reported => ReportedUnder(p, "policy") = errors

\* C18 witness: an empty roles list, an environments list with a member that is
\* no string and an unknown key: three errors
C18_Witness ==
    /\ "validate_schema" \in pc
    /\ \E p \in FieldsWithPolicy :
         /\ GetOrNone(BlockOf(p, "policy"), "editable_by_roles") = JList(<<>>)
         /\ GetOrNone(BlockOf(p, "policy"), "environment_restrictions") =
              JList(<<JStr("admin"), JInt(1)>>)
         /\ Has(BlockOf(p, "policy"), "owner")
         /\ Len(ReportedUnder(p, "policy")) = 3

\* C19: for every input value validate ends with success or with
\* SchemaValidationError carrying a non-empty error list, never with another
\* exception.  (Violated: a type that is a list or a dict ends the call with
\* TypeError.)
C19_NoOtherException ==
    "validate_schema" \in pc =>
        \/ schema_validation.raised = "" /\ schema_validation.errors = <<>>
        \/ schema_validation.raised = "SchemaValidationError"
           /\ schema_validation.errors # <<>>

\* a top level that is no mapping is reported, not raised
C19_NonMappingReported ==
    /\ "validate_schema" \in pc
    /\ ~IsDict(schema)
    /\ schema_validation.raised = "SchemaValidationError"

\* the calls that end with another exception are those that reach a
\* definition whose type is a list or a dict
C19_OnlyUnhashableTypeRaises ==
    "validate_schema" \in pc =>
        (schema_validation.raised \notin {"", "SchemaValidationError"} <=>
            \E p \in DocFields : GetOrNone(DefOf(p), "type").t \in {"list", "dict"})

\* every field of the document, mapping or not
AllDocFields ==
    UNION {{<<ns, f>> : f \in Keys(Get(DocNamespaces, ns))} :
           ns \in {n \in Keys(DocNamespaces) : IsDict(Get(DocNamespaces, n))}}

\* the rules of the data model that validate does enforce
EnforcedRules(p) ==
    /\ IsDict(DefOf(p))
    /\ ~TypeInvalid(p)
    /\ Has(DefOf(p), "default")
    /\ TypeAccepts(Get(DefOf(p), "type").s, Get(DefOf(p), "default"))
    /\ Has(DefOf(p), "constraints") =>
         /\ IsDict(BlockOf(p, "constraints"))
         /\ (Has(BlockOf(p, "constraints"), "min") /\ Has(BlockOf(p, "constraints"), "max"))
              => Halves(Get(BlockOf(p, "constraints"), "min"))
                   <= Halves(Get(BlockOf(p, "constraints"), "max"))
         /\ Has(BlockOf(p, "constraints"), "allowed_values") =>
              /\ Get(BlockOf(p, "constraints"), "allowed_values").t = "list"
              /\ Get(BlockOf(p, "constraints"), "allowed_values").l # <<>>
    /\ Has(DefOf(p), "policy") =>
         /\ IsDict(BlockOf(p, "policy"))
         /\ \A key \in {"editable_by_roles", "environment_restrictions"} :
              Has(BlockOf(p, "policy"), key) =>
                 /\ Get(BlockOf(p, "policy"), key).t = "list"
                 /\ Get(BlockOf(p, "policy"), key).l # <<>>

\* required and editable, when present, are booleans
FlagsAreBooleans(p) ==
    /\ Has(DefOf(p), "required") => Get(DefOf(p), "required").t = "bool"
    /\ Has(DefOf(p), "editable") => Get(DefOf(p), "editable").t = "bool"

\* C20: whenever validate succeeds, every field definition has a type among the
\* six names, a default matching it, boolean required and editable when
\* present, min <= max when both are present, and non-empty allowed_values and
\* policy lists when present.  (Violated: required and editable are not
\* examined, a document with required = 1 passes.)
C20_SuccessMeansDataModel ==
    ("validate_schema" \in pc /\ schema_validation.raised = "") =>
        /\ TopLevelPasses
        /\ \A ns \in Keys(DocNamespaces) : IsDict(Get(DocNamespaces, ns))
        /\ \A p \in AllDocFields : EnforcedRules(p) /\ FlagsAreBooleans(p)

\* success does mean every rule other than the two on required and editable
C20_EnforcedOnSuccess ==
    ("validate_schema" \in pc /\ schema_validation.raised = "") =>
        /\ TopLevelPasses
        /\ \A ns \in Keys(DocNamespaces) : IsDict(Get(DocNamespaces, ns))
        /\ \A p \in AllDocFields : EnforcedRules(p)

\* a document with constraints and policy passes
C20_SuccessReached ==
    /\ "validate_schema" \in pc
    /\ schema_validation.raised = ""
    /\ \E p \in AllDocFields : Has(DefOf(p), "constraints")
    /\ \E p \in AllDocFields : Has(DefOf(p), "policy")

(***************************************************************************)
(* ConfigResolver.resolve in memory. A dict or a list is an object with an *)
(* address; a variable, an item of a list and a value of a dict hold a     *)
(* reference to it, and copy.deepcopy allocates. None, booleans, numbers   *)
(* and strings cannot be mutated and are held by value.                    *)
(***************************************************************************)
Ref(a) == [t |-> "ref", n |-> a, s |-> "", l |-> <<>>, d |-> <<>>]

IsRef(v) == v.t = "ref"

\* the object a reference points to; a value held directly is itself
Deref(h, r) == IF IsRef(r) THEN h[r.n] ELSE r

\* what an object holds, and the object holding something else in the same
\* places
Items(cell) ==
    IF cell.t = "list" THEN cell.l ELSE [i \in DOMAIN cell.d |-> cell.d[i][2]]

WithItems(cell, items) ==
    IF cell.t = "list" THEN JList(items)
    ELSE JDict([i \in DOMAIN cell.d |-> <<cell.d[i][1], items[i]>>])

\* the number of dicts and lists a value is made of
RECURSIVE Objects(_)
Objects(v) ==
    IF v.t \notin {"list", "dict"} THEN 0
    ELSE LET RECURSIVE Sum(_)
             Sum(i) == IF i = 0 THEN 0 ELSE Sum(i - 1) + Objects(Items(v)[i])
         IN  1 + Sum(Len(Items(v)))

\* the objects of the first i items of v
ObjectsBefore(v, i) ==
    LET RECURSIVE Sum(_)
        Sum(j) == IF j = 0 THEN 0 ELSE Sum(j - 1) + Objects(Items(v)[j])
    IN  Sum(i - 1)

\* the new objects that make up v, allocated after address base: the objects
\* of each item in turn, then v itself
RECURSIVE NewObjects(_, _)
NewObjects(base, v) ==
    IF v.t \notin {"list", "dict"} THEN <<>>
    ELSE LET at(i) == base + ObjectsBefore(v, i)
             refs == [i \in DOMAIN Items(v) |->
                        IF Items(v)[i].t \in {"list", "dict"}
                        THEN Ref(at(i) + Objects(Items(v)[i]))
                        ELSE Items(v)[i]]
             RECURSIVE Blocks(_)
             Blocks(i) == IF i = 0 THEN <<>>
                          ELSE Blocks(i - 1) \o NewObjects(at(i), Items(v)[i])
         IN  Append(Blocks(Len(Items(v))), WithItems(v, refs))

\* the value v built out of new objects: the new memory and the reference
Allocate(h, v) ==
    [heap |-> h \o NewObjects(Len(h), v),
     ref |-> IF v.t \in {"list", "dict"} THEN Ref(Len(h) + Objects(v)) ELSE v]

\* the value a reference stands for
RECURSIVE ValueAt(_, _)
ValueAt(h, r) ==
    IF ~IsRef(r) THEN r
    ELSE WithItems(h[r.n], [i \in DOMAIN Items(h[r.n]) |->
                              ValueAt(h, Items(h[r.n])[i])])

\* the objects that can be reached through a reference
RECURSIVE Reachable(_, _)
Reachable(h, r) ==
    IF ~IsRef(r) THEN {}
    ELSE {r.n} \cup UNION {Reachable(h, Items(h[r.n])[i]) : i \in DOMAIN Items(h[r.n])}

\* an assignment without a copy: the very object
deepcopy_same_object(h, r) == [heap |-> h, ref |-> r]

\* copy.deepcopy(x): new objects all the way down
deepcopy(h, r) == Allocate(h, ValueAt(h, r))

\* base[ns_name][field_name] = copy.deepcopy(override_value), for a field the
\* schema declares
ApplyFieldInMemory(h, base, ns_name, schema_fields, field_name, override_value) ==
    IF ~Has(Deref(h, schema_fields), field_name)
    THEN h
    ELSE LET c == deepcopy(h, override_value)
             target == Get(Deref(c.heap, base), ns_name)
         IN  [c.heap EXCEPT ![target.n] = SetItem(@, field_name, c.ref)]

RECURSIVE ApplyFieldsInMemory(_, _, _, _, _, _)
ApplyFieldsInMemory(h, base, ns_name, schema_fields, items, i) ==
    IF i > Len(items)
    THEN h
    ELSE ApplyFieldsInMemory(
            ApplyFieldInMemory(h, base, ns_name, schema_fields, items[i][1], items[i][2]),
            base, ns_name, schema_fields, items, i + 1)

ApplyNamespaceInMemory(h, base, schema_namespaces, ns_name, ns_overrides) ==
    IF ~Has(Deref(h, schema_namespaces), ns_name)
    THEN h
    ELSE IF ~IsDict(Deref(h, ns_overrides))
    THEN h
    ELSE ApplyFieldsInMemory(h, base, ns_name,
                             Get(Deref(h, schema_namespaces), ns_name),
                             Deref(h, ns_overrides).d, 1)

RECURSIVE ApplyNamespacesInMemory(_, _, _, _, _)
ApplyNamespacesInMemory(h, base, schema_namespaces, items, i) ==
    IF i > Len(items)
    THEN h
    ELSE ApplyNamespacesInMemory(
            ApplyNamespaceInMemory(h, base, schema_namespaces, items[i][1], items[i][2]),
            base, schema_namespaces, items, i + 1)

\* ConfigResolver._apply_overrides(base, schema_namespaces, overrides)
ApplyOverridesInMemory(h, base, schema_namespaces, overrides) ==
    IF ~Truthy(Deref(h, overrides))
    THEN h
    ELSE ApplyNamespacesInMemory(h, base, schema_namespaces, Deref(h, overrides).d, 1)

\* {fname: copy.deepcopy(fdef["default"]) for fname, fdef in fields.items()}
RECURSIVE DefaultsInMemory(_, _, _, _)
DefaultsInMemory(h, fields, j, pairs) ==
    IF j > Len(fields)
    THEN [heap |-> Append(h, JDict(pairs)), ref |-> Ref(Len(h) + 1)]
    ELSE LET c == deepcopy(h, Get(Deref(h, fields[j][2]), "default"))
         IN  DefaultsInMemory(c.heap, fields, j + 1,
                              Append(pairs, <<fields[j][1], c.ref>>))

\* the dict comprehension over namespaces.items()
RECURSIVE BaseInMemory(_, _, _, _)
BaseInMemory(h, namespaces, i, pairs) ==
    IF i > Len(namespaces)
    THEN [heap |-> Append(h, JDict(pairs)), ref |-> Ref(Len(h) + 1)]
    ELSE LET c == DefaultsInMemory(h, Deref(h, namespaces[i][2]).d, 1, <<>>)
         IN  BaseInMemory(c.heap, namespaces, i + 1,
                          Append(pairs, <<namespaces[i][1], c.ref>>))

\* ConfigResolver.resolve on references: [raised, value, heap]
ResolveInMemoryResult(h, schema_, org, user) ==
    LET raises == ResolveRaises(ValueAt(h, schema_), ValueAt(h, org), ValueAt(h, user))
    IN  IF raises # ""
        THEN [raised |-> raises, value |-> JNull, heap |-> h]
        ELSE LET namespaces == Get(Deref(h, schema_), "namespaces")
                 b == BaseInMemory(h, Deref(h, namespaces).d, 1, <<>>)
                 after_org == ApplyOverridesInMemory(b.heap, b.ref, namespaces, org)
             IN  [raised |-> "", value |-> b.ref,
                  heap |-> ApplyOverridesInMemory(after_org, b.ref, namespaces, user)]

\* what a caller can do to a dict or a list it was handed
Mutated(cell, how) ==
    IF how = "clear" THEN WithItems(IF cell.t = "list" THEN JList(<<>>) ELSE JDict(<<>>), <<>>)
    ELSE IF cell.t = "list" THEN JList(Append(cell.l, JStr("mutated")))
    ELSE SetItem(cell, "mutated", JStr("mutated"))

\* default and override values that are dicts and lists
AliasSchemas == {SchemaV1, SchemaV2}

AliasLayers ==
    LayersOf({Entry("payments", "currency", JDict(<< <<"symbol", JStr("E")>> >>)),
              Entry("payments", "amount", StrList(<<"a">>)),
              Entry("features", "dark_mode", JBool(TRUE)),
              Entry("payments", "ghost_field", JDict(<<>>))})

\* ConfigResolver.resolve(schema, org_overrides, user_overrides), a first and a
\* second time
ResolveInMemory ==
    /\ "resolve_again" \notin pc
    /\ LET r == ResolveInMemoryResult(heap, schema, org_overrides, user_overrides)
       IN  /\ heap' = r.heap
           /\ resolved' = [raised |-> r.raised, value |-> r.value]
    /\ pc' = pc \cup {IF "resolve" \in pc THEN "resolve_again" ELSE "resolve"}
    /\ UNCHANGED <<schema, org_overrides, user_overrides, acting_role, environment,
                   config_overrides, validation, response, schema_validation,
                   rows, calls>>

\* the caller mutates the dict it was returned, or something inside it
MutateResolved ==
    /\ "resolve" \in pc
    /\ "mutate" \notin pc
    /\ resolved.raised = ""
    /\ \E a \in Reachable(heap, resolved.value), how \in {"add", "clear"} :
         heap' = [heap EXCEPT ![a] = Mutated(@, how)]
    /\ pc' = pc \cup {"mutate"}
    /\ UNCHANGED <<schema, org_overrides, user_overrides, acting_role, environment,
                   config_overrides, resolved, validation, response, schema_validation,
                   rows, calls>>

\* the schema and the two layers are objects of their own
InitAlias ==
    /\ \E s \in AliasSchemas, o \in AliasLayers, u \in AliasLayers :
         LET a == Allocate(<<>>, s)
             b == Allocate(a.heap, o)
             c == Allocate(b.heap, u)
         IN  /\ heap = c.heap
             /\ schema = a.ref
             /\ org_overrides = b.ref
             /\ user_overrides = c.ref
    /\ acting_role = "admin"
    /\ environment = "prod"
    /\ config_overrides = JDict(<<>>)
    /\ pc = {}
    /\ resolved = NoResolved
    /\ validation = NoValidation
    /\ response = NoResponse
    /\ schema_validation = NoSchemaValidation
    /\ rows = <<>>
    /\ calls = <<>>

NextAlias == ResolveInMemory \/ MutateResolved

SpecAlias == InitAlias /\ [][NextAlias]_vars

(***************************************************************************)
(* Claims about resolve and its inputs in memory (SpecAlias)               *)
(***************************************************************************)
\* the objects of the schema and of the two layers
InputObjects(h) ==
    Reachable(h, schema) \cup Reachable(h, org_overrides) \cup Reachable(h, user_overrides)

ResolveReturned == pc' # pc /\ ("mutate" \in pc' <=> "mutate" \in pc)

\* C21: a call of resolve, and a mutation of what it returned, leave the schema
\* and both layers as they were; the returned dict shares no dict and no list
\* with them; and a second call on the same inputs returns a value equal to the
\* first one's, which is the value resolve computes from the inputs.
C21_IndependentOutput ==
    [][/\ ValueAt(heap', schema') = ValueAt(heap, schema)
       /\ ValueAt(heap', org_overrides') = ValueAt(heap, org_overrides)
       /\ ValueAt(heap', user_overrides') = ValueAt(heap, user_overrides)
       /\ Reachable(heap', resolved'.value) \cap InputObjects(heap') = {}
       /\ ResolveReturned =>
            /\ resolved'.raised = ""
            /\ ValueAt(heap', resolved'.value)
                 = resolve(ValueAt(heap, schema), ValueAt(heap, org_overrides),
                           ValueAt(heap, user_overrides)).value
            /\ ("resolve" \in pc /\ "mutate" \notin pc) =>
                 ValueAt(heap', resolved'.value) = ValueAt(heap, resolved.value)
      ]_vars

\* C21 witness: a dict of the org layer and a list of the user layer are in the
\* output, the first output was mutated and resolve has returned again
C21_Witness ==
    /\ pc = {"resolve", "mutate", "resolve_again"}
    /\ LayerHolds(ValueAt(heap, org_overrides), "payments", "currency")
    /\ LayerHolds(ValueAt(heap, user_overrides), "payments", "amount")
    /\ LayerHolds(ValueAt(heap, resolved.value), "payments", "currency")
    /\ LayerHolds(ValueAt(heap, resolved.value), "payments", "amount")
    /\ Get(Get(ValueAt(heap, resolved.value), "payments"), "currency").t = "dict"
    /\ Get(Get(ValueAt(heap, resolved.value), "payments"), "amount").t = "list"

(***************************************************************************)
(* resolve on a schema without the namespaces key (SpecNoNamespaces)       *)
(***************************************************************************)
\* mappings that lack the key, beside one that has it
KeylessSchemas ==
    {JDict(<<>>),
     JDict(<< <<"version", JInt(1)>> >>),
     JDict(<< <<"payments", Get(Get(SchemaV3, "namespaces"), "payments")>> >>)}

\* layers that are no mappings
NonMappingLayers == {JStr("payments"), JList(<<>>), JInt(0), JInt(5)}

InitNoNamespaces ==
    /\ schema \in KeylessSchemas \cup {SchemaV3}
    /\ org_overrides \in ResolveLayers \cup NonMappingLayers
    /\ user_overrides \in {JNull, JDict(<<>>), JStr("payments"),
                           LayerOf({Entry("payments", "currency", JStr("EUR"))})}
    /\ acting_role = "admin"
    /\ environment = "prod"
    /\ config_overrides = JDict(<<>>)
    /\ pc = {}
    /\ resolved = NoResolved
    /\ validation = NoValidation
    /\ response = NoResponse
    /\ schema_validation = NoSchemaValidation
    /\ heap = <<>>
    /\ rows = <<>>
    /\ calls = <<>>

SpecNoNamespaces == InitNoNamespaces /\ [][Resolve]_vars

\* C22: on a schema that has no namespaces key resolve raises KeyError,
\* whatever the two layers hold, and returns nothing: no defaults, no part of a
\* configuration.
C22_MissingNamespacesFails ==
    ("resolve" \in pc /\ ~Has(schema, "namespaces")) =>
        /\ resolved.raised = "KeyError"
        /\ resolved.value = JNull

\* C22 witness: resolve has raised on a keyless schema that holds a namespace
\* at the top level, with a layer overriding a field of that namespace
C22_Witness ==
    /\ "resolve" \in pc
    /\ ~Has(schema, "namespaces")
    /\ Has(schema, "payments")
    /\ LayerHolds(org_overrides, "payments", "currency")
    /\ resolved.raised = "KeyError"

(***************************************************************************)
(* GlobalConfigSchema: the table, save() and get_active_schema.            *)
(* save() runs in a transaction of its own (transaction.atomic) on         *)
(* PostgreSQL at READ COMMITTED: rows holds what is committed, a           *)
(* transaction's writes are in its caller's locals until it commits, an    *)
(* UPDATE sees the rows of the snapshot taken when it starts, waits for    *)
(* the row locks of other transactions and looks at each row again once    *)
(* it has the lock.                                                        *)
(***************************************************************************)
\* the largest number of primary keys handed out
MaxRows == 3

Savers == {"s1", "s2"}

Readers == {"r1"}

\* a primary key that was handed out and holds no committed row
NoRow == [exists |-> FALSE, is_active |-> FALSE, schema_definition |-> JNull]

Row(is_active, definition) ==
    [exists |-> TRUE, is_active |-> is_active, schema_definition |-> definition]

\* a caller that is in no call; pk = 0 is an instance that has no primary key
Idle ==
    [at |-> "idle", pk |-> 0, is_active |-> FALSE, schema_definition |-> JNull,
     snapshot |-> {}, deactivated |-> {}, raised |-> ""]

\* GlobalConfigSchema.objects.filter(is_active=True), as primary keys
ActiveRows(table) == {pk \in DOMAIN table : table[pk].exists /\ table[pk].is_active}

\* the rows another transaction holds locked: the ones it deactivated, and its
\* own once written
RowLocks(q) ==
    calls[q].deactivated \cup (IF calls[q].at = "commit" THEN {calls[q].pk} ELSE {})

LockedByOthers(p) == UNION {RowLocks(q) : q \in Savers \ {p}}

\* save() deactivating the other active rows whatever self.is_active
DeactivationTargets_unconditional(is_active, pk, table) == ActiveRows(table) \ {pk}

\* if self.is_active: .filter(is_active=True).exclude(pk=self.pk), the rows the
\* UPDATE finds in its snapshot
DeactivationTargets(is_active, pk, table) ==
    IF is_active THEN ActiveRows(table) \ {pk} ELSE {}

\* a table without the constraint
unique_active_schema_absent(p) == "ok"

\* the partial unique constraint unique_active_schema, checked when p writes a
\* row with is_active = True: it waits for a transaction in progress that has
\* removed or added an active row, and is violated by a committed active row
\* that p has not deactivated itself
unique_active_schema(p) ==
    IF ~calls[p].is_active THEN "ok"
    ELSE IF \E q \in Savers \ {p} :
              \/ calls[q].deactivated # {}
              \/ calls[q].at = "commit"
                 /\ (calls[q].is_active \/ calls[q].pk \in ActiveRows(rows))
    THEN "wait"
    ELSE IF ActiveRows(rows) \ ({calls[p].pk} \cup calls[p].deactivated) # {}
    THEN "violation"
    ELSE "ok"

\* GlobalConfigSchema.objects.filter(is_active=True).first() under
\* ordering = ["-created_at"], or Http404
get_active_schema(table) ==
    IF ActiveRows(table) = {}
    THEN [Idle EXCEPT !.raised = "Http404"]
    ELSE LET pk == CHOOSE k \in ActiveRows(table) : \A j \in ActiveRows(table) : j <= k
         IN  [Idle EXCEPT !.pk = pk, !.is_active = TRUE,
                          !.schema_definition = table[pk].schema_definition]

\* the number of instances without a primary key being saved
Unsaved == Cardinality({q \in Savers : calls[q].at # "idle" /\ calls[q].pk = 0})

\* save() is called on a new instance or on one read from the table earlier,
\* with is_active set either way; the transaction begins and, if
\* self.is_active, the UPDATE of the other active rows starts (an UPDATE that
\* finds no row waits for nothing and writes nothing)
BeginSave(p) ==
    /\ calls[p].at = "idle"
    /\ \E is_active \in BOOLEAN,
          pk \in {0} \cup {k \in DOMAIN rows : rows[k].exists} :
         /\ pk = 0 => Len(rows) + Unsaved < MaxRows
         /\ calls' = [calls EXCEPT ![p] =
                [Idle EXCEPT
                    !.at = IF DeactivationTargets(is_active, pk, rows) = {}
                           THEN "save" ELSE "deactivating",
                    !.pk = pk,
                    !.is_active = is_active,
                    !.schema_definition = IF pk = 0 THEN SchemaV1
                                          ELSE rows[pk].schema_definition,
                    !.snapshot = DeactivationTargets(is_active, pk, rows)]]
    /\ UNCHANGED <<schema, org_overrides, user_overrides, acting_role, environment,
                   config_overrides, pc, resolved, validation, response,
                   schema_validation, heap, rows>>

\* the UPDATE ends: it has the lock of every row of its snapshot and has set
\* is_active = False on those that are still active
FinishDeactivate(p) ==
    /\ calls[p].at = "deactivating"
    /\ calls[p].snapshot \cap LockedByOthers(p) = {}
    /\ calls' = [calls EXCEPT ![p].at = "save",
                              ![p].deactivated = calls[p].snapshot \cap ActiveRows(rows)]
    /\ UNCHANGED <<schema, org_overrides, user_overrides, acting_role, environment,
                   config_overrides, pc, resolved, validation, response,
                   schema_validation, heap, rows>>

\* super().save(): the INSERT, which takes the next primary key, or the UPDATE
\* of the instance's row; IntegrityError rolls the transaction back
SaveRow(p) ==
    /\ calls[p].at = "save"
    /\ calls[p].pk \notin LockedByOthers(p)
    /\ unique_active_schema(p) # "wait"
    /\ rows' = IF calls[p].pk = 0 THEN Append(rows, NoRow) ELSE rows
    /\ calls' = [calls EXCEPT ![p] =
                    IF unique_active_schema(p) = "violation"
                    THEN [Idle EXCEPT !.raised = "IntegrityError"]
                    ELSE [calls[p] EXCEPT !.at = "commit",
                                          !.pk = IF calls[p].pk = 0 THEN Len(rows) + 1
                                                 ELSE calls[p].pk]]
    /\ UNCHANGED <<schema, org_overrides, user_overrides, acting_role, environment,
                   config_overrides, pc, resolved, validation, response,
                   schema_validation, heap>>

\* the transaction commits and save() returns
CommitSave(p) ==
    /\ calls[p].at = "commit"
    /\ rows' = [k \in DOMAIN rows |->
                  IF k = calls[p].pk
                  THEN Row(calls[p].is_active, calls[p].schema_definition)
                  ELSE IF k \in calls[p].deactivated
                  THEN [rows[k] EXCEPT !.is_active = FALSE]
                  ELSE rows[k]]
    /\ calls' = [calls EXCEPT ![p] = Idle]
    /\ UNCHANGED <<schema, org_overrides, user_overrides, acting_role, environment,
                   config_overrides, pc, resolved, validation, response,
                   schema_validation, heap>>

\* org_service.get_active_schema()
GetActiveSchema(r) ==
    /\ calls' = [calls EXCEPT ![r] = get_active_schema(rows)]
    /\ UNCHANGED <<schema, org_overrides, user_overrides, acting_role, environment,
                   config_overrides, pc, resolved, validation, response,
                   schema_validation, heap, rows>>

\* an empty table
InitActivation ==
    /\ schema = JNull
    /\ org_overrides = JNull
    /\ user_overrides = JNull
    /\ acting_role = "admin"
    /\ environment = "prod"
    /\ config_overrides = JDict(<<>>)
    /\ pc = {}
    /\ resolved = NoResolved
    /\ validation = NoValidation
    /\ response = NoResponse
    /\ schema_validation = NoSchemaValidation
    /\ heap = <<>>
    /\ rows = <<>>
    /\ calls = [c \in Savers \cup Readers |-> Idle]

NextActivation ==
    \/ \E p \in Savers : BeginSave(p)
    \/ \E p \in Savers : FinishDeactivate(p)
    \/ \E p \in Savers : SaveRow(p)
    \/ \E p \in Savers : CommitSave(p)
    \/ \E r \in Readers : GetActiveSchema(r)

SpecActivation == InitActivation /\ [][NextActivation]_vars

(***************************************************************************)
(* Claims about GlobalConfigSchema.save (SpecActivation)                   *)
(***************************************************************************)
\* C23: whatever the interleaving of the steps of concurrent save() calls, the
\* committed table never holds two rows with is_active = True.
C23_AtMostOneActive == Cardinality(ActiveRows(rows)) <= 1

\* C23 witness: a row is active while one caller has deactivated it without
\* having committed and the other waits to write a row that is active too
C23_Witness ==
    /\ ActiveRows(rows) # {}
    /\ \E p \in Savers, q \in Savers :
         /\ p # q
         /\ calls[p].deactivated = ActiveRows(rows)
         /\ calls[q].at = "save"
         /\ calls[q].is_active
         /\ unique_active_schema(q) = "wait"

\* C27: on the step where save() of a row with is_active = True returns, that
\* row is the only active row of the table and get_active_schema returns it; on
\* the step where save() of a row with is_active = False returns, no other row
\* changes its is_active; and a call of get_active_schema raises Http404
\* exactly when the table holds no active row.
C27_SaveActivates ==
    [][/\ \A p \in Savers :
            calls[p].at = "commit" /\ calls'[p].at = "idle" =>
              IF calls[p].is_active
              THEN /\ ActiveRows(rows') = {calls[p].pk}
                   /\ get_active_schema(rows').raised = ""
                   /\ get_active_schema(rows').pk = calls[p].pk
              ELSE \A k \in DOMAIN rows :
                     k # calls[p].pk => rows'[k].is_active = rows[k].is_active
        /\ \A r \in Readers :
            calls'[r] # calls[r] =>
              /\ calls'[r].raised = "Http404" <=> ActiveRows(rows) = {}
              /\ calls'[r].raised = "" => calls'[r].pk \in ActiveRows(rows)]_vars

\* C27 witness: get_active_schema has returned the second row, saved active
\* while the first was, and the first row is inactive
C27_Witness ==
    /\ Len(rows) >= 2
    /\ rows[1].exists
    /\ ~rows[1].is_active
    /\ ActiveRows(rows) = {2}
    /\ \E r \in Readers : calls[r].pk = 2 /\ calls[r].raised = ""
    /\ \A p \in Savers : calls[p].at = "idle"

(***************************************************************************)
(* Schemas that change under stored overrides: GlobalConfigSchema rows are *)
(* saved one call at a time, with or without full_clean() before save(),   *)
(* and the organisation's services read the active row. schema holds the   *)
(* schema_definition of the row get_active_schema returns (JNull for       *)
(* Http404).                                                               *)
(***************************************************************************)
\* the documents rows are saved with: two that SchemaValidator accepts, the
\* second without the features namespace and payments.amount, and {}
EvolvingDocuments == {SchemaV1, SchemaV3, JDict(<<>>)}

\* GlobalConfigSchema.clean(): "" or the exception it raises
clean(definition) ==
    IF SchemaValidator_validate(definition).raised = "SchemaValidationError"
    THEN "ValidationError"
    ELSE SchemaValidator_validate(definition).raised

\* the table after save() of one instance, no other call running
save(table, pk, is_active, definition) ==
    LET updated == [k \in DOMAIN table |->
                      IF k \in DeactivationTargets(is_active, pk, table)
                      THEN [table[k] EXCEPT !.is_active = FALSE]
                      ELSE table[k]]
    IN  IF pk = 0
        THEN Append(updated, Row(is_active, definition))
        ELSE [updated EXCEPT ![pk] = Row(is_active, definition)]

\* a caller builds an instance, or reads one from the table and sets its
\* is_active, and saves it: with full_clean() first
\* (the admin form, the model's docstring), where ValidationError ends the
\* call before save(), or with save() alone (objects.create of the tests)
SaveGlobalConfigSchema ==
    \E definition \in EvolvingDocuments, is_active \in BOOLEAN, full_clean \in BOOLEAN,
       pk \in {0} \cup {k \in DOMAIN rows : rows[k].exists} :
        /\ pk = 0 => Len(rows) < MaxRows
        /\ pk # 0 => definition = rows[pk].schema_definition
        /\ rows' = IF full_clean /\ clean(definition) # ""
                   THEN rows
                   ELSE save(rows, pk, is_active, definition)
        /\ schema' = get_active_schema(rows').schema_definition
        /\ response' = NoResponse
        /\ resolved' = NoResolved
        /\ validation' = NoValidation
        /\ UNCHANGED <<org_overrides, user_overrides, acting_role, environment,
                       config_overrides, pc, schema_validation, heap, calls>>

\* the blobs proposed while the schemas change: valid under one schema and
\* stale under the other, or valid under none
EvolvingBlobs ==
    {JDict(<<>>),
     LayerOf({Entry("payments", "amount", JInt(3))}),
     LayerOf({Entry("payments", "amount", JInt(3)),
              Entry("payments", "currency", JStr("EUR"))}),
     LayerOf({Entry("features", "dark_mode", JBool(TRUE))}),
     LayerOf({Entry("payments", "processor_id", JStr("adyen"))}),
     LayerOf({Entry("payments", "ghost_field", JInt(1))})}

\* apply_config_overrides on the active schema and the stored blob: what it
\* stores, the validation result, the resolver's result and what the caller gets
apply_config_overrides(active, stored, overrides, role, env) ==
    IF active = JNull
    THEN [stored |-> stored, validation |-> NoValidation, resolved |-> NoResolved,
          response |-> [call |-> "apply_config_overrides", status |-> "Http404",
                        effective_config |-> JNull]]
    ELSE LET result == validate(active, overrides, role, env)
             saved == StoredAfterApply(result, stored, overrides)
             effective == resolve(active, saved, JNull)
         IN  [stored |-> saved,
              validation |-> result,
              resolved |-> IF result.valid THEN effective ELSE NoResolved,
              response |-> [call |-> "apply_config_overrides",
                            status |-> IF ~result.valid \/ effective.raised = ""
                                       THEN "returned" ELSE effective.raised,
                            effective_config |-> IF result.valid THEN effective.value
                                                 ELSE JNull]]

\* apply_config_overrides by an admin in staging, on the active row
ApplyOnActiveSchema ==
    \E overrides \in EvolvingBlobs :
        LET out == apply_config_overrides(schema, config_overrides, overrides,
                                          "admin", "staging")
        IN  /\ org_overrides' = overrides
            /\ acting_role' = "admin"
            /\ environment' = "staging"
            /\ config_overrides' = out.stored
            /\ validation' = out.validation
            /\ resolved' = out.resolved
            /\ response' = out.response
            /\ UNCHANGED <<schema, user_overrides, pc, schema_validation,
                           heap, rows, calls>>

\* an empty table and an organisation just created
InitEvolving ==
    /\ schema = JNull
    /\ org_overrides = JDict(<<>>)
    /\ user_overrides = JNull
    /\ acting_role = "admin"
    /\ environment = "staging"
    /\ config_overrides = JDict(<<>>)
    /\ pc = {}
    /\ resolved = NoResolved
    /\ validation = NoValidation
    /\ response = NoResponse
    /\ schema_validation = NoSchemaValidation
    /\ heap = <<>>
    /\ rows = <<>>
    /\ calls = <<>>

NextEvolving == SaveGlobalConfigSchema \/ ApplyOnActiveSchema \/ GetEffectiveConfig

SpecEvolving == InitEvolving /\ [][NextEvolving]_vars

(***************************************************************************)
(* Claims about saved schemas and stored overrides (SpecEvolving)          *)
(***************************************************************************)
\* schema is the definition of the active row
SchemaIsActiveRow == schema = get_active_schema(rows).schema_definition

\* C24: every row of the table holds a schema_definition that SchemaValidator
\* accepts, and no call of get_effective_config or apply_config_overrides ends
\* with the resolver's KeyError.
C24_OnlyValidatedSchemas ==
    /\ \A k \in DOMAIN rows :
         rows[k].exists => SchemaValidator_validate(rows[k].schema_definition).raised = ""
    /\ response.status # "KeyError"

\* C24: get_effective_config has ended with KeyError on an active row holding
\* {}, which SchemaValidator rejects
C24_RejectedSchemaActive ==
    /\ response.call = "get_effective_config"
    /\ response.status = "KeyError"
    /\ schema = JDict(<<>>)
    /\ SchemaValidator_validate(schema).raised = "SchemaValidationError"
    /\ \E k \in ActiveRows(rows) : rows[k].schema_definition = schema

\* the services end with KeyError only on an active schema that SchemaValidator
\* rejects
C24_KeyErrorOnlyOnRejected ==
    response.status = "KeyError" => SchemaValidator_validate(schema).raised # ""

\* C25: whatever rows were saved and whatever blobs were applied before, a call
\* of get_effective_config made while the active schema is one SchemaValidator
\* accepts returns, and what it returns has exactly the namespaces of that
\* schema and in each exactly its fields; a field holds the stored blob's value
\* when the blob holds the field under its namespace, the schema default
\* otherwise, so stored entries the schema does not declare are not in it.
C25_StaleOverridesDropped ==
    (/\ response.call = "get_effective_config"
     /\ schema # JNull
     /\ SchemaValidator_validate(schema).raised = "") =>
        /\ response.status = "returned"
        /\ Keys(response.effective_config) = Keys(Namespaces)
        /\ \A ns \in Keys(Namespaces) :
             /\ Keys(Get(response.effective_config, ns)) = Keys(Get(Namespaces, ns))
             /\ \A f \in Keys(Get(Namespaces, ns)) :
                  Get(Get(response.effective_config, ns), f) =
                    IF LayerHolds(config_overrides, ns, f)
                    THEN LayerValue(config_overrides, ns, f)
                    ELSE SchemaDefault(ns, f)

\* C25 witness: get_effective_config has returned under the later schema while
\* the stored blob, applied under the earlier one, holds payments.amount, which
\* the later schema does not declare, and payments.currency, which it does
C25_Witness ==
    /\ response.call = "get_effective_config"
    /\ response.status = "returned"
    /\ schema = SchemaV3
    /\ LayerHolds(config_overrides, "payments", "amount")
    /\ LayerHolds(config_overrides, "payments", "currency")
    /\ ~Has(Get(response.effective_config, "payments"), "amount")
    /\ Get(Get(response.effective_config, "payments"), "currency") = JStr("EUR")
    /\ Cardinality({k \in DOMAIN rows : rows[k].exists}) >= 2

(***************************************************************************)
(* Concurrent apply_config_overrides calls on one organisation. A call     *)
(* opens no transaction and takes no lock: it reads the active schema and  *)
(* the organisation, validates, and later writes the config_overrides      *)
(* column with org.save(update_fields=...); other calls run in between.    *)
(***************************************************************************)
Appliers == {"a1", "a2"}

\* the blobs the concurrent callers propose: three that pass under SchemaV1
\* (one of them only in staging), one naming an undeclared field, one outside
\* the allowed values
RequestBlobs ==
    {JDict(<<>>),
     LayerOf({Entry("payments", "amount", JInt(3)),
              Entry("payments", "currency", JStr("EUR"))}),
     LayerOf({Entry("features", "dark_mode", JBool(TRUE))}),
     LayerOf({Entry("payments", "ghost_field", JInt(1))}),
     LayerOf({Entry("payments", "currency", JStr("CAD"))})}

\* a caller that is in no call
NoRequest ==
    [at |-> "idle", overrides |-> JNull, environment |-> "", result |-> NoValidation]

\* what the column holds after a save that merges the blob into the stored one
SavedColumn_merged(stored, overrides) ==
    JDict([i \in DOMAIN stored.d |->
             <<stored.d[i][1],
               IF Has(overrides, stored.d[i][1])
               THEN Get(overrides, stored.d[i][1])
               ELSE stored.d[i][2]>>]
          \o SelectSeq(overrides.d, LAMBDA item : ~Has(stored, item[1])))

\* org.config_overrides = overrides; org.save(update_fields=[...]): what the
\* column holds afterwards
SavedColumn(stored, overrides) == overrides

\* the call starts: get_active_schema, get_organization and validate; a blob
\* that fails validation ends the call here with (result, None)
ValidateRequest(p) ==
    /\ calls[p].at = "idle"
    /\ \E overrides \in RequestBlobs, env \in Environments :
         LET result == validate(schema, overrides, "admin", env)
         IN  IF result.valid
             THEN /\ calls' = [calls EXCEPT ![p] =
                                 [at |-> "validated", overrides |-> overrides,
                                  environment |-> env, result |-> result]]
                  /\ UNCHANGED <<validation, resolved, response>>
             ELSE /\ calls' = [calls EXCEPT ![p] = NoRequest]
                  /\ validation' = result
                  /\ resolved' = NoResolved
                  /\ response' = [call |-> "apply_config_overrides",
                                  status |-> "returned", effective_config |-> JNull]
    /\ UNCHANGED <<schema, org_overrides, user_overrides, acting_role, environment,
                   config_overrides, pc, schema_validation, heap, rows>>

\* the call goes on: the assignment, org.save, resolve and the return
SaveRequest(p) ==
    /\ calls[p].at = "validated"
    /\ config_overrides' = SavedColumn(config_overrides, calls[p].overrides)
    /\ validation' = calls[p].result
    /\ resolved' = resolve(schema, calls[p].overrides, JNull)
    /\ response' = [call |-> "apply_config_overrides",
                    status |-> IF resolved'.raised = "" THEN "returned"
                               ELSE resolved'.raised,
                    effective_config |-> resolved'.value]
    /\ calls' = [calls EXCEPT ![p] = NoRequest]
    /\ UNCHANGED <<schema, org_overrides, user_overrides, acting_role, environment,
                   pc, schema_validation, heap, rows>>

\* an organisation just created, REALISTIC_SCHEMA active
InitRequests ==
    /\ schema = SchemaV1
    /\ org_overrides = JNull
    /\ user_overrides = JNull
    /\ acting_role = "admin"
    /\ environment = "prod"
    /\ config_overrides = JDict(<<>>)
    /\ pc = {}
    /\ resolved = NoResolved
    /\ validation = NoValidation
    /\ response = NoResponse
    /\ schema_validation = NoSchemaValidation
    /\ heap = <<>>
    /\ rows = <<>>
    /\ calls = [p \in Appliers |-> NoRequest]

NextRequests ==
    \/ \E p \in Appliers : ValidateRequest(p)
    \/ \E p \in Appliers : SaveRequest(p)

SpecRequests == InitRequests /\ [][NextRequests]_vars

(***************************************************************************)
(* Claims about concurrent apply_config_overrides calls (SpecRequests)     *)
(***************************************************************************)
\* the blobs of RequestBlobs that pass validation in some environment
StorableBlobs ==
    {b \in RequestBlobs : \E env \in Environments : validate(schema, b, "admin", env).valid}

\* C26: in every interleaving of the calls' steps, the stored blob changes only
\* on the saving step of a call whose validation succeeded and becomes that
\* call's blob, whole, whatever was stored before; so the stored blob is the
\* initial empty mapping or the blob of the valid call that saved last, and a
\* blob that failed validation is never stored.
C26_LastValidWriteWins ==
    [][/\ config_overrides' # config_overrides =>
            \E p \in Appliers :
              /\ calls[p].at = "validated"
              /\ calls'[p].at = "idle"
              /\ calls[p].result.valid
              /\ validate(schema, calls[p].overrides, "admin", calls[p].environment).valid
              /\ config_overrides' = calls[p].overrides
       /\ \A p \in Appliers :
            calls[p].at = "validated" /\ calls'[p].at = "idle" =>
              config_overrides' = calls[p].overrides
       /\ config_overrides' \in StorableBlobs]_vars

\* C26 witness: a call that validated its blob while another blob was being
\* stored saves over it: the column holds the features blob another call saved
\* and a validated call is about to replace it with the payments blob
C26_Witness ==
    /\ config_overrides = LayerOf({Entry("features", "dark_mode", JBool(TRUE))})
    /\ response.call = "apply_config_overrides"
    /\ response.effective_config # JNull
    /\ \E p \in Appliers :
         /\ calls[p].at = "validated"
         /\ calls[p].overrides = LayerOf({Entry("payments", "amount", JInt(3)),
                                          Entry("payments", "currency", JStr("EUR"))})

(***************************************************************************)
(* Claims relating validate and resolve on one schema and blob             *)
(* (SpecValidate)                                                          *)
(***************************************************************************)
\* C28: when validate returns valid = True for the blob, resolve on the same
\* schema and blob returns a configuration that holds the blob's value at every
\* field the blob gives under a namespace, each of which the schema declares,
\* and the schema default at every other field; and apply_config_overrides on
\* the same inputs returns that configuration.
C28_ValidBlobFullyApplied ==
    (pc = {"validate", "resolve"} /\ validation.raised = "" /\ validation.valid) =>
        /\ resolved.raised = ""
        /\ \A ns \in Keys(org_overrides) :
             /\ Has(Namespaces, ns)
             /\ IsDict(Get(org_overrides, ns))
             /\ \A f \in Keys(Get(org_overrides, ns)) :
                  /\ Has(Get(Namespaces, ns), f)
                  /\ Get(Get(resolved.value, ns), f) = Get(Get(org_overrides, ns), f)
        /\ \A p \in SchemaFields :
             ~LayerHolds(org_overrides, p[1], p[2]) =>
               Get(Get(resolved.value, p[1]), p[2]) = SchemaDefault(p[1], p[2])
        /\ apply_config_overrides(schema, config_overrides, org_overrides,
                                  acting_role, environment).response
             = [call |-> "apply_config_overrides", status |-> "returned",
                effective_config |-> resolved.value]

\* C28 witness: a blob giving both payments fields passed validation and
\* resolve returned both values, neither of them the default, with the default
\* for the field the blob leaves out
C28_Witness ==
    /\ pc = {"validate", "resolve"}
    /\ validation.valid
    /\ schema = SchemaV1
    /\ LayerHolds(org_overrides, "payments", "amount")
    /\ LayerHolds(org_overrides, "payments", "currency")
    /\ Get(Get(resolved.value, "payments"), "amount") = JInt(3)
    /\ Get(Get(resolved.value, "payments"), "currency") = JStr("EUR")
    /\ Get(Get(resolved.value, "features"), "dark_mode") = JBool(FALSE)

(***************************************************************************)
(* SchemaValidator.validate, OverrideValidationService.validate and        *)
(* ConfigResolver.resolve on one schema and one org blob                   *)
(***************************************************************************)
\* a field of every type, unconstrained and editable by anyone; the float
\* field's default is an int
SchemaV5 ==
    JDict(<< <<"namespaces", JDict(<<
        <<"limits", JDict(<<
            <<"count", Field(<< <<"type", JStr("integer")>>, <<"default", JInt(3)>> >>)>>,
            <<"ratio", Field(<< <<"type", JStr("float")>>, <<"default", JInt(2)>> >>)>>,
            <<"tags", Field(<< <<"type", JStr("list")>>, <<"default", JList(<<>>)>> >>)>>,
            <<"label", Field(<< <<"type", JStr("string")>>, <<"default", JStr("x")>> >>)>>,
            <<"flag", Field(<< <<"type", JStr("boolean")>>, <<"default", JBool(FALSE)>> >>)>>,
            <<"meta", Field(<< <<"type", JStr("dict")>>, <<"default", JDict(<<>>)>> >>)>>
        >>)>>
    >>)>> >>)

\* the same fields with defaults SchemaValidator rejects: a bool for integer
\* and for float, an int for boolean
SchemaV6 ==
    JDict(<< <<"namespaces", JDict(<<
        <<"limits", JDict(<<
            <<"count", Field(<< <<"type", JStr("integer")>>, <<"default", JBool(TRUE)>> >>)>>,
            <<"ratio", Field(<< <<"type", JStr("float")>>, <<"default", JBool(FALSE)>> >>)>>,
            <<"flag", Field(<< <<"type", JStr("boolean")>>, <<"default", JInt(1)>> >>)>>
        >>)>>
    >>)>> >>)

PipelineSchemas == {SchemaV4, SchemaV5, SchemaV6}

\* blobs for the limits namespace: for each type a value of its kind and values
\* of the kinds the type rule tells apart from it
PipelineBlobs ==
    LayersOf({Entry("limits", "count", v) :
                v \in {JInt(3), JBool(TRUE), JFloat(6), JStr("3")}}
             \cup {Entry("limits", "ratio", v) :
                v \in {JInt(3), JFloat(5), JBool(FALSE)}}
             \cup {Entry("limits", "flag", v) : v \in {JBool(TRUE), JInt(1)}}
             \cup {Entry("limits", "label", v) : v \in {JStr("x"), JInt(0)}}
             \cup {Entry("limits", "tags", v) : v \in {StrList(<<"a">>), JStr("a")}}
             \cup {Entry("limits", "meta", v) :
                v \in {JDict(<< <<"k", JInt(1)>> >>), JList(<<>>)}})

InitPipeline ==
    /\ schema \in PipelineSchemas
    /\ org_overrides \in PipelineBlobs
    /\ user_overrides = JNull
    /\ acting_role = "admin"
    /\ environment = "staging"
    /\ config_overrides = JDict(<<>>)
    /\ pc = {}
    /\ resolved = NoResolved
    /\ validation = NoValidation
    /\ response = NoResponse
    /\ schema_validation = NoSchemaValidation
    /\ heap = <<>>
    /\ rows = <<>>
    /\ calls = <<>>

NextPipeline == ValidateSchema \/ Validate \/ Resolve

SpecPipeline == InitPipeline /\ [][NextPipeline]_vars

(***************************************************************************)
(* Claims about the three stages together (SpecPipeline)                   *)
(***************************************************************************)
AllStagesRan == pc = {"validate_schema", "validate", "resolve"}

\* C29: when SchemaValidator accepts the schema and validate returns
\* valid = True for the org blob, every field of what resolve returns holds a
\* value the field's declared type accepts under the type rule: no bool in an
\* integer or float field, an int or a float in a float field.
C29_ResolvedMatchesDeclaredTypes ==
    (/\ AllStagesRan
     /\ schema_validation.raised = ""
     /\ validation.raised = ""
     /\ validation.valid) =>
        /\ resolved.raised = ""
        /\ \A p \in SchemaFields :
             TypeAccepts(Get(Get(Get(Namespaces, p[1]), p[2]), "type").s,
                         Get(Get(resolved.value, p[1]), p[2]))

\* C29 witness: on the accepted schema a blob giving an int for the float field
\* and an int for the integer field passed, and resolve returned both beside
\* the defaults of the other types
C29_Witness ==
    /\ AllStagesRan
    /\ schema = SchemaV5
    /\ schema_validation.raised = ""
    /\ validation.valid
    /\ LayerHolds(org_overrides, "limits", "ratio")
    /\ LayerHolds(org_overrides, "limits", "count")
    /\ Get(Get(resolved.value, "limits"), "ratio") = JInt(3)
    /\ Get(Get(resolved.value, "limits"), "count") = JInt(3)
    /\ Get(Get(resolved.value, "limits"), "flag") = JBool(FALSE)

\* the precondition on the schema is needed: a rejected schema with a valid
\* blob resolves to a default of the wrong type
C29_RejectedSchemaResolves ==
    /\ AllStagesRan
    /\ schema = SchemaV6
    /\ schema_validation.raised = "SchemaValidationError"
    /\ validation.valid
    /\ Get(Get(resolved.value, "limits"), "count") = JBool(TRUE)

(***************************************************************************)
(* Defaults and the field's own constraints: SchemaValidator.validate and  *)
(* ConfigResolver.resolve on documents of one field whose default lies     *)
(* inside or outside min, max and allowed_values                           *)
(***************************************************************************)
DefaultTypes == {"integer", "float", "string", "list"}

\* defaults below, inside and above the bounds, in and out of the allowed
\* values, and one that matches none of the types
DefaultValues ==
    {JInt(1), JInt(3), JInt(9), JFloat(1), JFloat(20), JStr("USD"), JStr("CAD"),
     JList(<<>>), StrList(<<"a", "b", "c">>), JBool(TRUE)}

\* no block, well-formed blocks, and one whose min exceeds its max
DefaultConstraintBlocks ==
    {Absent,
     JDict(<< <<"min", JInt(2)>>, <<"max", JInt(5)>> >>),
     JDict(<< <<"allowed_values", JList(<<JInt(3), JStr("USD")>>)>> >>),
     JDict(<< <<"min", JInt(2)>>, <<"max", JInt(2)>>,
              <<"allowed_values", JList(<<JFloat(4), StrList(<<"a">>)>>)>> >>),
     JDict(<< <<"min", JInt(5)>>, <<"max", JInt(2)>> >>)}

DefaultDocuments ==
    {Document(JDict(<< <<"payments", JDict(<<
        <<"amount", FieldDef(JStr(t), d, c, Absent, Absent, Absent)>> >>)>> >>)) :
        t \in DefaultTypes, d \in DefaultValues, c \in DefaultConstraintBlocks}

InitDefaults ==
    /\ schema \in DefaultDocuments
    /\ org_overrides \in {JNull, JDict(<<>>)}
    /\ user_overrides = JNull
    /\ acting_role = "admin"
    /\ environment = "prod"
    /\ config_overrides = JDict(<<>>)
    /\ pc = {}
    /\ resolved = NoResolved
    /\ validation = NoValidation
    /\ response = NoResponse
    /\ schema_validation = NoSchemaValidation
    /\ heap = <<>>
    /\ rows = <<>>
    /\ calls = <<>>

NextDefaults == ValidateSchema \/ Resolve

SpecDefaults == InitDefaults /\ [][NextDefaults]_vars

(***************************************************************************)
(* Claims about defaults and constraints (SpecDefaults)                    *)
(***************************************************************************)
TheField == Get(Get(Namespaces, "payments"), "amount")

\* the document with the field's default replaced
WithDefault(d) ==
    Document(JDict(<< <<"payments", JDict(<<
        <<"amount", SetItem(TheField, "default", d)>> >>)>> >>))

\* the default breaks a constraint that overrides of the field are held to
DefaultOutsideConstraints ==
    /\ Has(TheField, "constraints")
    /\ _validate_constraints("payments.amount", Get(TheField, "type"),
                             Get(TheField, "default"),
                             Get(TheField, "constraints")) # <<>>

\* C30: for a field whose default matches its declared type, validate gives the
\* same result when the default is replaced by any other value matching that
\* type, inside or outside the field's min, max and allowed_values; so a
\* document whose only oddity is a default outside its own constraints is
\* accepted, and resolve returns that default as the field's value.
C30_DefaultNotHeldToConstraints ==
    ("validate_schema" \in pc /\ TypeAccepts(Get(TheField, "type").s,
                                             Get(TheField, "default"))) =>
        /\ \A d \in DefaultValues :
             TypeAccepts(Get(TheField, "type").s, d) =>
               SchemaValidator_validate(WithDefault(d)) = schema_validation
        /\ (~Has(TheField, "constraints")
            \/ SchemaValidator_validate_constraints(
                  "namespaces.payments.amount", Get(TheField, "constraints")) = <<>>)
             => schema_validation.raised = ""
        /\ "resolve" \in pc =>
             /\ resolved.raised = ""
             /\ Get(Get(resolved.value, "payments"), "amount") = Get(TheField, "default")

\* C30 witness: an integer field with min 2 and max 5 and the default 9 was
\* accepted, and resolve returned 9
C30_Witness ==
    /\ pc = {"validate_schema", "resolve"}
    /\ Get(TheField, "type") = JStr("integer")
    /\ Get(TheField, "default") = JInt(9)
    /\ DefaultOutsideConstraints
    /\ GetOrNone(Get(TheField, "constraints"), "max") = JInt(5)
    /\ schema_validation.raised = ""
    /\ Get(Get(resolved.value, "payments"), "amount") = JInt(9)
====
